---- MODULE Spec2Model ----
(***************************************************************************)
(* Model of the AI4SE test generator (server/main.py and                   *)
(* server/services/generator.py): the /generate-tests request, its         *)
(* coverage-guided refinement loop, the AST analyzer and the heuristic     *)
(* test composer.                                                          *)
(*                                                                         *)
(* Python text is modelled by TLA+ strings, an f-string by \o.  A source   *)
(* file is modelled by what ast.parse makes of it: a module whose body is  *)
(* a sequence of FunctionDef, AsyncFunctionDef, ClassDef and other nodes,  *)
(* each function carrying the nodes ast.walk yields for it.                *)
(***************************************************************************)
EXTENDS Integers, Sequences, FiniteSets, TLC

VARIABLES
    pc,               \* position of the request in generate_tests_endpoint
    source,           \* request.code_content, as parsed by ast.parse
    hashseed,         \* the process's string-hash order (iteration order of sets)
    test_code,        \* main.py: test_code
    explanation,      \* main.py: explanation
    coverage_result,  \* main.py: coverage_result, the runner's last answer
    coverage_pct,     \* main.py: coverage_pct
    iterations,       \* main.py: iterations
    improve_calls,    \* number of calls of improve_tests_with_coverage so far
    measured_tests,   \* the test text handed to the last coverage run
    measurements,     \* the coverage percentages measured so far, in order
    target_functions, \* generator.py: target_functions of the last improve call
    response,         \* the TestGenerationResponse returned, once returned
    file_name,        \* models.py: request.file_name
    call,             \* a function of generator.py called on its own: its arguments
    result            \* what that call returned

vars == <<pc, source, hashseed, test_code, explanation, coverage_result,
          coverage_pct, iterations, improve_calls, measured_tests,
          measurements, target_functions, response, file_name, call, result>>

-----------------------------------------------------------------------------
(* Bounds of the model. *)

\* The hash order permutes the first MaxPermuted elements of every set.
MaxPermuted == 3

\* Depth at which the model's interpreter gives up a recursion
\* (RecursionError); Python's own limit is far larger.
RecursionLimit == 4

-----------------------------------------------------------------------------
(* Python strings and lists. *)

Min(a, b) == IF a < b THEN a ELSE b

\* sub in s
Contains(s, sub) ==
    \E i \in 1..(Len(s) - Len(sub) + 1) : SubSeq(s, i, i + Len(sub) - 1) = sub

\* any(x in s for x in words)
AnyIn(words, s) == \E w \in words : Contains(s, w)

\* s.startswith(p)
StartsWith(s, p) == Len(p) <= Len(s) /\ SubSeq(s, 1, Len(p)) = p

\* The first index from which sub occurs in text at or after index from, 0
\* when there is none.
FindFrom(text, sub, from) ==
    LET hits == {i \in from..(Len(text) - Len(sub) + 1) :
                   SubSeq(text, i, i + Len(sub) - 1) = sub}
    IN IF hits = {} THEN 0 ELSE CHOOSE i \in hits : \A j \in hits : i <= j

\* s.strip()
RECURSIVE Strip(_)
Strip(s) ==
    LET White(c) == c \in {" ", "\n", "\t", "\r"}
    IN IF s = "" THEN ""
       ELSE IF White(SubSeq(s, 1, 1)) THEN Strip(SubSeq(s, 2, Len(s)))
       ELSE IF White(SubSeq(s, Len(s), Len(s))) THEN Strip(SubSeq(s, 1, Len(s) - 1))
       ELSE s

UpperLetters == "ABCDEFGHIJKLMNOPQRSTUVWXYZ"
LowerLetters == "abcdefghijklmnopqrstuvwxyz"

LowerChar(c) ==
    IF \E i \in 1..26 : SubSeq(UpperLetters, i, i) = c
    THEN LET i == CHOOSE j \in 1..26 : SubSeq(UpperLetters, j, j) = c
         IN SubSeq(LowerLetters, i, i)
    ELSE c

\* s.lower()
RECURSIVE Lower(_)
Lower(s) == IF s = "" THEN "" ELSE LowerChar(SubSeq(s, 1, 1)) \o Lower(SubSeq(s, 2, Len(s)))

\* sep.join(parts)
RECURSIVE Join(_, _)
Join(parts, sep) ==
    IF parts = <<>> THEN ""
    ELSE IF Len(parts) = 1 THEN parts[1]
    ELSE LET half == Len(parts) \div 2
         IN Join(SubSeq(parts, 1, half), sep) \o sep
            \o Join(SubSeq(parts, half + 1, Len(parts)), sep)

\* seq[:k]
Take(seq, k) == SubSeq(seq, 1, Min(k, Len(seq)))

\* The concatenation of a sequence of sequences.
RECURSIVE Flatten(_)
Flatten(seqs) ==
    IF seqs = <<>> THEN <<>>
    ELSE IF Len(seqs) = 1 THEN seqs[1]
    ELSE LET half == Len(seqs) \div 2
         IN Flatten(SubSeq(seqs, 1, half)) \o Flatten(SubSeq(seqs, half + 1, Len(seqs)))

\* list(dict.fromkeys(seq)): duplicates dropped, first occurrences kept in order.
RECURSIVE Dedup(_)
Dedup(seq) ==
    LET Add(init, last) ==
            IF \E i \in DOMAIN init : init[i] = last THEN init ELSE Append(init, last)
    IN IF seq = <<>> THEN <<>>
       ELSE Add(Dedup(SubSeq(seq, 1, Len(seq) - 1)), seq[Len(seq)])

\* The process's hash orders: a set of strings iterates in an order fixed by
\* the process's hash seed (PYTHONHASHSEED), not by the program.
HashSeeds == { p \in [1..MaxPermuted -> 1..MaxPermuted] :
                 \A i, j \in 1..MaxPermuted : p[i] = p[j] => i = j }

RECURSIVE BaseList(_)
BaseList(S) ==
    IF S = {} THEN <<>>
    ELSE LET x == CHOOSE y \in S : TRUE IN <<x>> \o BaseList(S \ {x})

HashKey(seed, i) == IF i \in DOMAIN seed THEN seed[i] ELSE i

\* list(S) for a set S, in a process with hash order seed.
ListOfSet(S, seed) ==
    LET b == BaseList(S)
        n == Len(b)
        at(j) == CHOOSE i \in 1..n :
                   Cardinality({k \in 1..n : HashKey(seed, k) < HashKey(seed, i)}) = j - 1
    IN [j \in 1..n |-> b[at(j)]]

\* None, where a name is expected (no identifier is empty).
None == ""

-----------------------------------------------------------------------------
(* The syntax tree (module ast).  A node is a record with a type; the     *)
(* fields of a node depend on its type, as in Python.                      *)

Constant(v) == [type |-> "Constant", value |-> v, is_str |-> TRUE]
Num(v) == [type |-> "Constant", value |-> v, is_str |-> FALSE]
Name(id, parent) == [type |-> "Name", id |-> id, parent |-> parent]
Attribute(attr) == [type |-> "Attribute", attr |-> attr]
FuncName(id) == [type |-> "Name", id |-> id]
Subscript(slice) == [type |-> "Subscript", slice |-> slice]
Call(func, args) == [type |-> "Call", func |-> func, args |-> args]
Compare(left, ops, comparators) ==
    [type |-> "Compare", left |-> left, ops |-> ops, comparators |-> comparators]
If(test) == [type |-> "If", test |-> test]
Stmt(type) == [type |-> type]

FunctionDef(name, args, lineno, end_lineno, decorator_list, body) ==
    [type |-> "FunctionDef", name |-> name, args |-> args, lineno |-> lineno,
     end_lineno |-> end_lineno, decorator_list |-> decorator_list, body |-> body]

AsyncFunctionDef(name, args, lineno, end_lineno, decorator_list, body) ==
    [type |-> "AsyncFunctionDef", name |-> name, args |-> args, lineno |-> lineno,
     end_lineno |-> end_lineno, decorator_list |-> decorator_list, body |-> body]

ClassDef(name, body) == [type |-> "ClassDef", name |-> name, body |-> body]

\* ast.parse(source_code): a module, or a SyntaxError.
Module(body) == [ok |-> TRUE, body |-> body]
SyntaxError == [ok |-> FALSE, body |-> <<>>]

\* ast.walk(node) for a function definition: the nodes below it.  The body
\* and the decorators are both below the definition.
Walk(node) == node.body \o node.decorator_list

\* The nodes ast.walk yields for the expression d['key'], d a name.
SubscriptExpr(d, key) ==
    << Subscript(Constant(key)), Name(d, Stmt("Subscript")), Constant(key) >>

\* The nodes ast.walk yields for the expression d.get('key').
GetExpr(d, key) ==
    << Call(Attribute("get"), <<Constant(key)>>), Attribute("get"), Constant(key),
       Name(d, Attribute("get")) >>

\* The nodes ast.walk yields for `if left op 'literal':` (a string comparison).
IfCompareStr(left, op, lit) ==
    << If(Compare(left, <<op>>, <<"'" \o lit \o "'">>)),
       Compare(left, <<op>>, <<"'" \o lit \o "'">>),
       Name(left, Stmt("Compare")), Constant(lit) >>

\* The nodes ast.walk yields for `if left op number:`.
IfCompareNum(left, op, n) ==
    << If(Compare(left, <<op>>, <<ToString(n)>>)),
       Compare(left, <<op>>, <<ToString(n)>>),
       Name(left, Stmt("Compare")), Num(n) >>

\* The nodes ast.walk yields for `return a + b`.
ReturnSum(a, b) ==
    << Stmt("Return"), Stmt("BinOp"), Name(a, Stmt("BinOp")), Name(b, Stmt("BinOp")) >>

\* The nodes ast.walk yields for `return 'literal'` and for `return 1`.
ReturnStr(lit) == << Stmt("Return"), Constant(lit) >>
ReturnNum(n) == << Stmt("Return"), Num(n) >>

\* The nodes ast.walk yields for a call `obj.attr(arg)` and for `open(arg)`.
MethodCall(attr, arg) ==
    << Call(Attribute(attr), <<FuncName(arg)>>), Attribute(attr),
       Name(arg, Call(Attribute(attr), <<FuncName(arg)>>)) >>
OpenCall(arg) ==
    << Call(FuncName("open"), <<FuncName(arg)>>),
       Name("open", Call(FuncName("open"), <<FuncName(arg)>>)),
       Name(arg, Call(FuncName("open"), <<FuncName(arg)>>)) >>

-----------------------------------------------------------------------------
(* generator.py: the structural analyzer. *)

\* _extract_condition(test_node): a dict for a comparison or a boolean
\* operation, None (here <<>>) otherwise.
_extract_condition(test_node) ==
    IF test_node.type = "Compare"
    THEN <<[left |-> test_node.left, ops |-> test_node.ops,
            comparators |-> test_node.comparators]>>
    ELSE IF test_node.type = "BoolOp"
    THEN <<[type |-> "BoolOp", op |-> test_node.op]>>
    ELSE <<>>

\* _extract_comparison(comp_node)
_extract_comparison(comp_node) ==
    [left |-> comp_node.left, ops |-> comp_node.ops, comparators |-> comp_node.comparators]

\* The usage tier of _infer_parameter_types: the first use of the name that
\* decides (its parent a Subscript, or a Call of .get/.keys/.values).
UsageType(func_node, param) ==
    LET walk == Walk(func_node)
        IsUse(i) == walk[i].type = "Name" /\ walk[i].id = param
        ByCall(i) == /\ walk[i].parent.type = "Call"
                     /\ walk[i].parent.func.type = "Attribute"
                     /\ walk[i].parent.func.attr \in {"get", "keys", "values"}
        Decides(i) == IsUse(i) /\ (walk[i].parent.type = "Subscript" \/ ByCall(i))
        hits == {i \in DOMAIN walk : Decides(i)}
    IN IF hits = {} THEN "any"
       ELSE LET first == CHOOSE i \in hits : \A j \in hits : i <= j
            IN IF walk[first].parent.type = "Subscript" THEN "list" ELSE "dict"

\* The type _infer_parameter_types gives one parameter.
InferredType(func_node, param) ==
    LET param_lower == Lower(param)
    IN IF AnyIn({"price", "cost", "amount", "total", "discount"}, param_lower) THEN "float"
       ELSE IF AnyIn({"count", "quantity", "num", "n", "index"}, param_lower) THEN "int"
       ELSE IF AnyIn({"name", "type", "code", "country", "status"}, param_lower) THEN "str"
       ELSE IF AnyIn({"items", "list", "arr", "numbers"}, param_lower) THEN "list"
       ELSE IF AnyIn({"is_", "has_", "can_"}, param_lower) THEN "bool"
       ELSE IF param_lower \in {"data", "config", "options"} THEN "dict"
       ELSE UsageType(func_node, param)

\* _infer_parameter_types(func_node, param_names): a dict param -> type.
_infer_parameter_types(func_node, param_names) ==
    [param \in {param_names[i] : i \in DOMAIN param_names} |->
        InferredType(func_node, param)]

\* The keys the first chain of _analyze_function adds for one walked node:
\* a string-constant subscript, or the string-constant first argument of a
\* call of an attribute named get.
DictKeysOf(child) ==
    IF child.type = "Subscript" /\ child.slice.type = "Constant"
    THEN IF child.slice.is_str THEN {child.slice.value} ELSE {}
    ELSE IF child.type = "Call" /\ child.func.type = "Attribute"
    THEN IF /\ child.func.attr = "get"
            /\ child.args # <<>>
            /\ child.args[1].type = "Constant"
            /\ child.args[1].is_str
         THEN {child.args[1].value}
         ELSE {}
    ELSE {}

\* The body indicators the last branch of the second chain adds for a node.
BodyIndicatorsOf(child) ==
    IF child.type # "Call" THEN {}
    ELSE IF child.func.type = "Name" /\ child.func.id = "open" THEN {"file_op"}
    ELSE IF child.func.type = "Attribute"
    THEN IF child.func.attr \in {"walk", "listdir", "scandir", "mkdir", "makedirs", "rmdir"}
         THEN {"dir_op"}
         ELSE IF child.func.attr \in {"read", "write", "readlines", "unlink", "remove"}
         THEN {"file_op"}
         ELSE {}
    ELSE {}

\* _analyze_function(node)
_analyze_function(node) ==
    LET walk == Walk(node)
        args == SelectSeq(node.args, LAMBDA a : a # "self")
        OfType(types) == SelectSeq(walk, LAMBDA c : c.type \in types)
        ifs == OfType({"If"})
        loops == OfType({"For", "While"})
        compares == OfType({"Compare"})
    IN [name |-> node.name,
        args |-> args,
        lineno |-> node.lineno,
        end_lineno |-> node.end_lineno,
        param_types |-> _infer_parameter_types(node, args),
        string_literals |->
            {walk[i].value : i \in {j \in DOMAIN walk :
                                      walk[j].type = "Constant" /\ walk[j].is_str}},
        comparisons |-> [i \in DOMAIN compares |-> _extract_comparison(compares[i])],
        dict_keys |-> UNION {DictKeysOf(walk[i]) : i \in DOMAIN walk},
        body_indicators |-> UNION {BodyIndicatorsOf(walk[i]) : i \in DOMAIN walk},
        has_if |-> ifs # <<>>,
        has_loops |-> loops # <<>>,
        has_try |-> OfType({"Try"}) # <<>>,
        returns |-> [i \in DOMAIN OfType({"Return"}) |-> TRUE],
        branches |-> Len(ifs) + Len(loops),
        conditions |-> Flatten([i \in DOMAIN ifs |-> _extract_condition(ifs[i].test)])]

\* The method infos of a class: only FunctionDef items are analyzed.
MethodInfos(node) ==
    LET items == SelectSeq(node.body, LAMBDA item : item.type = "FunctionDef")
    IN [i \in DOMAIN items |->
          _analyze_function(items[i]) @@ [is_method |-> TRUE, class_name |-> node.name]]

\* class_info of one ClassDef: init_args are those of its (last) __init__.
ClassInfo(node) ==
    LET Info(methods) ==
            LET inits == {i \in DOMAIN methods : methods[i].name = "__init__"}
            IN [name |-> node.name,
                methods |-> methods,
                init_args |-> IF inits = {} THEN <<>>
                              ELSE methods[CHOOSE i \in inits : \A j \in inits : j <= i].args]
    IN Info(MethodInfos(node))

\* analyze_code_structure answering an unparsable source with empty lists
\* that carry no error note.
analyze_code_structure_without_error_note(source_code) ==
    [functions |-> <<>>, classes |-> <<>>, error |-> FALSE]

\* analyze_code_structure(source_code): never raises; a syntax error gives
\* empty lists and an error note.
analyze_code_structure(source_code) ==
    IF ~source_code.ok
    THEN [functions |-> <<>>, classes |-> <<>>, error |-> TRUE]
    ELSE LET body == source_code.body
             classNodes == SelectSeq(body, LAMBDA n : n.type = "ClassDef")
             FunctionsOf(n) ==
                 IF n.type = "ClassDef" THEN MethodInfos(n)
                 ELSE IF n.type = "FunctionDef"
                 THEN <<_analyze_function(n) @@ [is_method |-> FALSE, class_name |-> None]>>
                 ELSE <<>>
         IN [functions |-> Flatten([i \in DOMAIN body |-> FunctionsOf(body[i])]),
             classes |-> [i \in DOMAIN classNodes |-> ClassInfo(classNodes[i])],
             error |-> FALSE]

-----------------------------------------------------------------------------
(* generator.py: sample values, dict literals and edge-case inputs. *)

\* What a call returns in place of text when the interpreter's recursion
\* limit is hit below it: the RecursionError propagates to the caller.
RecursionError == "<RecursionError>"

\* _build_dict_from_keys(keys, string_literals)
_build_dict_from_keys(keys, string_literals) ==
    LET output_key_patterns == {"toplam", "total", "result", "sonuc", "output", "maliyet"}
        InputKeys(filtered) == IF filtered = <<>> THEN keys ELSE filtered
        ValueOf(key_lower, role_literals) ==
            IF AnyIn({"ucret", "price", "cost", "salary", "amount", "maas"}, key_lower)
            THEN "100"
            ELSE IF AnyIn({"gun", "day", "count", "quantity", "num", "adet", "stock", "stok"},
                          key_lower)
            THEN "5"
            ELSE IF AnyIn({"yil", "year"}, key_lower) THEN "2020"
            ELSE IF AnyIn({"ad", "name", "isim"}, key_lower) THEN "'TestUrun'"
            ELSE IF AnyIn({"pozisyon", "role", "title", "job"}, key_lower)
            THEN IF role_literals # <<>> THEN "'" \o role_literals[1] \o "'"
                 ELSE "'Yönetici'"
            ELSE "'value'"
        Parts(input_keys, role_literals) ==
            [i \in DOMAIN input_keys |->
                "'" \o input_keys[i] \o "': "
                    \o ValueOf(Lower(input_keys[i]), role_literals)]
    IN "{"
       \o Join(Parts(InputKeys(SelectSeq(keys, LAMBDA k :
                                            ~AnyIn(output_key_patterns, Lower(k)))),
                     SelectSeq(string_literals,
                               LAMBDA lit : AnyIn({"yönetici", "uzman", "manager", "admin",
                                                   "employee"}, Lower(lit)))),
               ", ")
       \o "}"

\* The func_info dict the callers build for a constructor:
\* {'name': '__init__', 'args': init_args, 'param_types': {}}; the keys it
\* lacks read as their .get defaults.
InitFuncInfo(init_args) ==
    [name |-> "__init__", args |-> init_args, param_types |-> <<>>,
     dict_keys |-> {}, string_literals |-> {}]

\* _generate_comprehensive_args(args, scenario, func_info, analysis), in a
\* process with hash order seed, called at recursion depth depth.
RECURSIVE _generate_comprehensive_args(_, _, _, _, _, _)
_generate_comprehensive_args(args, scenario, func_info, analysis, seed, depth) ==
    IF scenario # "normal" THEN "None"
    ELSE IF depth > RecursionLimit THEN RecursionError
    ELSE
    LET param_types == func_info.param_types
        classes == analysis.classes
        TypeOf(arg) == IF arg \in DOMAIN param_types THEN param_types[arg] ELSE "any"
        Construct(arg_type, init_arg_str) ==
            IF init_arg_str = RecursionError THEN RecursionError
            ELSE arg_type \o "(" \o init_arg_str \o ")"
        Sample(arg_type, arg_lower, dict_keys, string_literals) ==
            LET matches == {i \in DOMAIN classes : classes[i].name = arg_type}
            IN IF matches # {}
               THEN \* CASE 0: dependency injection
                    LET matched_class == classes[CHOOSE i \in matches : \A j \in matches : i <= j]
                        init_args == matched_class.init_args
                    IN IF init_args # <<>>
                       THEN Construct(arg_type,
                                      _generate_comprehensive_args(
                                          init_args, "normal", InitFuncInfo(init_args),
                                          analysis, seed, depth + 1))
                       ELSE arg_type \o "()"
               ELSE IF \/ arg_type = "list"
                       \/ AnyIn({"list", "items", "siparis", "orders", "urunler", "products"},
                                arg_lower)
               THEN IF dict_keys # <<>>
                    THEN "[" \o _build_dict_from_keys(dict_keys, string_literals) \o "]"
                    ELSE "[1, 2, 3]"
               ELSE IF /\ AnyIn({"directory", "dir", "folder", "path"}, arg_lower)
                       /\ ~Contains(arg_lower, "file")
               THEN "'.' if os.path.exists('.') else '/tmp'"
               ELSE IF AnyIn({"filepath", "file_path", "filename", "file", "db_path",
                              "veritabani"}, arg_lower)
               THEN "'test_db.json'"
               ELSE IF AnyIn({"pattern", "search", "query", "filter", "keyword"}, arg_lower)
               THEN "'.py'"
               ELSE IF \/ arg_type = "int"
                       \/ AnyIn({"gun", "day", "yil", "year", "count", "num", "int", "depth",
                                 "max", "min", "limit", "stok", "stock", "adet", "quantity"},
                                arg_lower)
               THEN "10"
               ELSE IF \/ arg_type = "float"
                       \/ AnyIn({"oran", "rate", "ratio", "float", "percent", "fiyat", "price",
                                 "tutar", "amount", "cost"}, arg_lower)
               THEN "100.0"
               ELSE IF arg_type = "str"
               THEN IF string_literals # <<>> THEN "'" \o string_literals[1] \o "'"
                    ELSE "'test'"
               ELSE IF arg_type = "dict"
               THEN IF dict_keys # <<>> THEN _build_dict_from_keys(dict_keys, string_literals)
                    ELSE "{'key': 'value'}"
               ELSE IF \/ arg_type = "bool"
                       \/ AnyIn({"include", "skip", "hidden", "recursive", "enable", "flag"},
                                arg_lower)
               THEN "True"
               ELSE IF AnyIn({"name", "title", "text", "message", "code", "method", "ad"},
                             arg_lower)
               THEN "'Test Name'"
               ELSE "10"
        Samples(dict_keys, string_literals) ==
            [i \in DOMAIN args |->
                Sample(TypeOf(args[i]), Lower(args[i]), dict_keys, string_literals)]
        Joined(samples) ==
            IF \E i \in DOMAIN samples : samples[i] = RecursionError
            THEN RecursionError
            ELSE Join(samples, ", ")
    IN Joined(Samples(ListOfSet(func_info.dict_keys, seed),
                      ListOfSet(func_info.string_literals, seed)))

\* _get_safe_value(arg_name)
_get_safe_value(arg_name) ==
    LET Value(arg_lower) ==
            IF AnyIn({"file", "path", "dir", "folder"}, arg_lower) THEN "'.'"
            ELSE IF AnyIn({"pattern", "search", "query"}, arg_lower) THEN "'.py'"
            ELSE IF AnyIn({"is_", "has_", "enable", "skip", "hidden"}, arg_lower) THEN "False"
            ELSE IF AnyIn({"num", "count", "depth", "limit", "max", "min"}, arg_lower) THEN "1"
            ELSE IF AnyIn({"list", "items", "arr"}, arg_lower) THEN "[1]"
            ELSE "'default'"
    IN Value(Lower(arg_name))

\* _get_edge_values(arg)
_get_edge_values(arg) ==
    LET Values(arg_lower) ==
            IF AnyIn({"file", "path", "filepath", "directory", "dir", "folder"}, arg_lower)
            THEN <<"'.'", "'/tmp'", "'nonexistent_path'">>
            ELSE IF AnyIn({"pattern", "search", "query", "filter", "keyword"}, arg_lower)
            THEN <<"'.py'", "''">>
            ELSE IF AnyIn({"include", "skip", "hidden", "flag", "enable"}, arg_lower)
            THEN <<"True", "False">>
            ELSE IF AnyIn({"depth", "max", "min", "limit", "num", "int", "count"}, arg_lower)
            THEN <<"-1", "0", "1", "10">>
            ELSE IF AnyIn({"list", "arr", "items"}, arg_lower)
            THEN <<"[]", "[1]">>
            ELSE <<"None", "0", "1", "-1", "''">>
    IN Values(Lower(arg))

\* A tuple of values formatted as the text of a Python tuple.
TupleStr(values) ==
    "(" \o Join(values, ", ") \o (IF Len(values) = 1 THEN "," ELSE "") \o ")"

\* _generate_edge_case_inputs(args, func_info)
_generate_edge_case_inputs(args, func_info) ==
    LET CurrentArgs(i, val, defaults) ==
            [j \in DOMAIN args |-> IF i = j THEN val ELSE defaults[j]]
        Combinations(i, edge_vals, defaults) ==
            [k \in DOMAIN edge_vals |-> TupleStr(CurrentArgs(i, edge_vals[k], defaults))]
        EdgeCases(defaults) ==
            Flatten([i \in DOMAIN args |->
                       Combinations(i, _get_edge_values(args[i]), defaults)])
            \o (IF defaults # <<>> THEN <<TupleStr(defaults)>> ELSE <<>>)
    IN Take(Dedup(EdgeCases([j \in DOMAIN args |-> _get_safe_value(args[j])])), 15)

\* str.isdigit() for the text of a number: not empty, decimal digits only.
IsDigit(s) ==
    /\ s # ""
    /\ \A i \in 1..Len(s) : \E d \in 1..10 : SubSeq(s, i, i) = SubSeq("0123456789", d, d)

\* s.replace('.', '', 1)
RECURSIVE RemoveFirstDot(_)
RemoveFirstDot(s) ==
    IF s = "" THEN ""
    ELSE IF SubSeq(s, 1, 1) = "." THEN SubSeq(s, 2, Len(s))
    ELSE SubSeq(s, 1, 1) \o RemoveFirstDot(SubSeq(s, 2, Len(s)))

\* The test of line 852: the comparator reads as a number, signed or not.
IsNumberFormat(val_str) ==
    \/ IsDigit(RemoveFirstDot(val_str))
    \/ /\ val_str # "" /\ SubSeq(val_str, 1, 1) = "-"
       /\ IsDigit(RemoveFirstDot(SubSeq(val_str, 2, Len(val_str))))

\* The value of a run of decimal digits.
RECURSIVE DigitsValue(_)
DigitsValue(s) ==
    IF s = "" THEN 0
    ELSE 10 * DigitsValue(SubSeq(s, 1, Len(s) - 1))
         + ((CHOOSE d \in 1..10 : SubSeq(s, Len(s), Len(s)) = SubSeq("0123456789", d, d)) - 1)

\* int(float(val)) of a number text without a point.  The float is exact
\* for the literals of the model, all far below 2^53.
IntOf(val) ==
    IF SubSeq(val, 1, 1) = "-" THEN 0 - DigitsValue(SubSeq(val, 2, Len(val)))
    ELSE DigitsValue(val)

\* float(val) of a number text with a point, in hundredths.  The literals
\* of the model have at most two decimals.
HundredthsOf(val) ==
    LET Of(sign, text) ==
            LET dot == CHOOSE i \in 1..Len(text) : SubSeq(text, i, i) = "."
                Frac(f) == IF Len(f) = 0 THEN 0
                           ELSE IF Len(f) = 1 THEN 10 * DigitsValue(f)
                           ELSE DigitsValue(SubSeq(f, 1, 2))
            IN sign * (100 * DigitsValue(SubSeq(text, 1, dot - 1))
                       + Frac(SubSeq(text, dot + 1, Len(text))))
    IN IF SubSeq(val, 1, 1) = "-" THEN Of(0 - 1, SubSeq(val, 2, Len(val)))
       ELSE Of(1, val)

\* str(num) of a float given in hundredths: the shortest text, with at
\* least one decimal.
FloatStr(h) ==
    LET Abs(whole, frac) ==
            ToString(whole) \o "."
            \o (IF frac % 10 = 0 THEN ToString(frac \div 10)
                ELSE IF frac < 10 THEN "0" \o ToString(frac)
                ELSE ToString(frac))
    IN IF h < 0 THEN "-" \o Abs((0 - h) \div 100, (0 - h) % 100)
       ELSE Abs(h \div 100, h % 100)

\* Lines 856-871: the three boundary values around one extracted constraint.
BoundaryTests(val) ==
    IF ~Contains(val, ".")
    THEN <<ToString(IntOf(val)), ToString(IntOf(val) + 1), ToString(IntOf(val) - 1)>>
    ELSE <<FloatStr(HundredthsOf(val)), FloatStr(HundredthsOf(val) + 1),
           FloatStr(HundredthsOf(val) - 1)>>

\* Lines 885-934: the list values built from the dict keys of the function.
\* A dict is a sequence of [k, v, num]: the key, the text of its value and
\* whether the value is a number.
SmartListValues(extracted_keys) ==
    LET Value(lower_k) ==
            IF AnyIn({"ucret", "price", "cost", "amount", "salary", "total"}, lower_k)
            THEN [v |-> "100", num |-> TRUE]
            ELSE IF AnyIn({"gun", "day", "count", "quantity", "yil", "year", "num", "adet"},
                          lower_k)
            THEN [v |-> "5", num |-> TRUE]
            ELSE IF AnyIn({"oncelik", "priority", "rank", "level", "score"}, lower_k)
            THEN [v |-> "1", num |-> TRUE]
            ELSE IF AnyIn({"stok", "stock"}, lower_k) THEN [v |-> "100", num |-> TRUE]
            ELSE IF AnyIn({"ad", "name", "title", "pozisyon", "role", "baslik"}, lower_k)
            THEN [v |-> "'TestUrun'", num |-> FALSE]
            ELSE [v |-> "'test_val'", num |-> FALSE]
        Repr(d) ==
            "{" \o Join([i \in DOMAIN d |-> "'" \o d[i].k \o "': " \o d[i].v], ", ") \o "}"
        Values(dict1) ==
            LET dict2 == [i \in DOMAIN dict1 |->
                            IF dict1[i].num THEN [dict1[i] EXCEPT !.v = "0"] ELSE dict1[i]]
                dict3 == SubSeq(dict1, 2, Len(dict1))
                dict4 == [i \in DOMAIN dict1 |->
                            IF AnyIn({"oncelik", "priority"}, Lower(dict1[i].k))
                            THEN [dict1[i] EXCEPT !.v = "10"] ELSE dict1[i]]
            IN <<"[]",
                 "[" \o Repr(dict1) \o "]",
                 "[" \o Repr(dict1) \o ", " \o Repr(dict1) \o "]",
                 "[" \o Repr(dict2) \o "]",
                 "[" \o Repr(dict4) \o "]",
                 "[" \o Repr(dict3) \o "]",
                 "[" \o Repr(dict1) \o ", " \o Repr(dict3) \o "]">>
    IN Values([i \in DOMAIN extracted_keys |->
                 [k |-> extracted_keys[i]] @@ Value(Lower(extracted_keys[i]))])

\* _generate_smart_test_values(param_name, param_type, string_literals,
\* func_info), in a process with hash order seed.
_generate_smart_test_values(param_name, param_type, string_literals, func_info, seed) ==
    LET Mentions(comp) == Contains(Lower(comp.left), Lower(param_name))
        Constraints(comp) == SelectSeq(comp.comparators, IsNumberFormat)
        Boundaries(constraint_values) ==
            Flatten([i \in DOMAIN constraint_values |-> BoundaryTests(constraint_values[i])])
        Quoted(literals) == [i \in DOMAIN literals |-> "'" \o literals[i] \o "'"]
        DictOfOnes(extracted_keys) ==
            "{" \o Join([i \in DOMAIN extracted_keys |-> "'" \o extracted_keys[i] \o "': 1"],
                        ", ") \o "}"
        Values(boundary_tests, extracted_keys) ==
            IF param_type = "float"
            THEN boundary_tests \o <<"0.0", "100.0", "10.5", "-5.0", "0.01">>
            ELSE IF param_type = "int"
            THEN boundary_tests \o <<"0", "1", "10", "100", "-1", "5">>
            ELSE IF param_type = "str"
            THEN Quoted(Take(ListOfSet(string_literals, seed), 5))
                 \o <<"''", "'TestUrun'", "'invalid'", "None">>
            ELSE IF param_type = "list"
            THEN IF extracted_keys # <<>> THEN SmartListValues(extracted_keys)
                 ELSE <<"[]", "[1, 2, 3]", "[{'a': 1}, {'b': 2}]", "['a', 'b']">>
            ELSE IF param_type = "bool" THEN <<"True", "False">>
            ELSE IF param_type = "dict"
            THEN IF extracted_keys # <<>> THEN <<"{}", DictOfOnes(extracted_keys)>>
                 ELSE <<"{}", "{'key': 'value'}", "{'id': 1}">>
            ELSE boundary_tests \o <<"None", "0", "1", "''", "[]">>
    IN Take(Dedup(Values(Boundaries(Flatten(
                            [i \in DOMAIN func_info.comparisons |->
                               IF Mentions(func_info.comparisons[i])
                               THEN Constraints(func_info.comparisons[i]) ELSE <<>>])),
                         ListOfSet(func_info.dict_keys, seed))), 15)

-----------------------------------------------------------------------------
(* generator.py: generate_tests_with_ai with use_ai=False, the heuristic  *)
(* composer.  Each operator below gives the lines one part of the function *)
(* appends to its list tests.                                              *)

\* Lines 258-282: the instantiation test of a class.
InstantiationTest(class_name, init_args, all_string_literals, seed) ==
    LET lits == SelectSeq(Take(ListOfSet(all_string_literals, seed), 5),
                          LAMBDA lit : lit # "" /\ Len(lit) < 20)
        constructor_variants == <<"">> \o [i \in DOMAIN lits |-> "'" \o lits[i] \o "'"]
        Try(variant) ==
            << "    try:",
               IF variant # "" THEN "        obj = " \o class_name \o "(" \o variant \o ")"
               ELSE "        obj = " \o class_name \o "()",
               "        assert obj is not None",
               "    except Exception: pass" >>
        chosen == Take(constructor_variants, 3)
    IN << "def test_" \o class_name \o "_instantiation():",
          "    \"\"\"Test " \o class_name \o " class instantiation\"\"\"",
          "    from source import " \o class_name >>
       \o (IF init_args # <<>>
           THEN Flatten([i \in DOMAIN chosen |-> Try(chosen[i])])
           ELSE << "    obj = " \o class_name \o "()", "    assert obj is not None" >>)
       \o << "" >>

\* Lines 284-319: one test calling every method of a class.
AllMethodsTest(class_name, methods, analysis, seed) ==
    LET CallOf(method) ==
            LET method_name == method.name
                dict_keys == ListOfSet(method.dict_keys, seed)
                string_literals == ListOfSet(method.string_literals, seed)
            IN IF method_name = "__init__" THEN <<>>
               ELSE IF dict_keys # <<>>
               THEN << "    # Test " \o method_name \o " with dict input",
                       "    try:",
                       "        result = obj." \o method_name \o "("
                           \o _build_dict_from_keys(dict_keys, string_literals) \o ")",
                       "    except Exception: pass" >>
               ELSE IF method.args # <<>>
               THEN << "    # Test " \o method_name,
                       "    try:",
                       "        result = obj." \o method_name \o "("
                           \o _generate_comprehensive_args(method.args, "normal", method,
                                                           analysis, seed, 1) \o ")",
                       "    except Exception: pass" >>
               ELSE << "    # Test " \o method_name,
                       "    try:",
                       "        result = obj." \o method_name \o "()",
                       "    except Exception: pass" >>
    IN << "def test_" \o class_name \o "_all_methods():",
          "    \"\"\"Test all " \o class_name \o " methods with proper inputs\"\"\"",
          "    from source import " \o class_name,
          "    obj = " \o class_name \o "()",
          "" >>
       \o Flatten([i \in DOMAIN methods |-> CallOf(methods[i])])
       \o << "" >>

\* Lines 321-332: the user-types test, when a literal looks like a user type.
UserTypesTest(class_name, all_string_literals, seed) ==
    LET user_types ==
            SelectSeq(ListOfSet(all_string_literals, seed),
                      LAMBDA lit : AnyIn({"vip", "premium", "standard", "admin", "user"},
                                         Lower(lit)))
        chosen == Take(user_types, 3)
        Try(user_type) ==
            << "    try:",
               "        obj = " \o class_name \o "('" \o user_type \o "')",
               "        assert obj is not None",
               "    except Exception: pass" >>
    IN IF user_types = <<>> THEN <<>>
       ELSE << "def test_" \o class_name \o "_user_types():",
               "    \"\"\"Test " \o class_name \o " with different user types\"\"\"",
               "    from source import " \o class_name >>
            \o Flatten([i \in DOMAIN chosen |-> Try(chosen[i])])
            \o << "" >>

\* Lines 345-354: the classification of a method name.
IsMutator(m_name) ==
    AnyIn({"add", "set", "update", "create", "insert", "append", "ekle", "yukle",
           "guncelle", "kaydet"}, Lower(m_name))

\* Lines 337-354: the mutators and the accessors of a class.
Mutators(methods) ==
    SelectSeq(methods, LAMBDA m : m.name # "__init__" /\ IsMutator(m.name))
Accessors(methods) ==
    SelectSeq(methods, LAMBDA m : m.name # "__init__" /\ ~IsMutator(m.name))

\* Lines 356-445: the lifecycle scenario of a class, emitted when the class
\* has a mutator.
LifecycleTest(class_name, init_args, methods, analysis, seed) ==
    LET Args(m, scenario) ==
            _generate_comprehensive_args(m.args, scenario, m, analysis, seed, 1)
        Mutate(m) ==
            IF m.args # <<>>
            THEN << "    try:",
                    "        obj." \o m.name \o "(" \o Args(m, "normal") \o ")",
                    "    except Exception: pass" >>
            ELSE << "    try: obj." \o m.name \o "()",
                    "    except Exception: pass" >>
        Access(m) ==
            IF m.args # <<>>
            THEN << "    try:",
                    "        result = obj." \o m.name \o "(" \o Args(m, "normal") \o ")",
                    "        assert result is not None or result is None",
                    "    except Exception: pass" >>
            ELSE << "    try:",
                    "        result = obj." \o m.name \o "()",
                    "    except Exception: pass" >>
        MutateEdge(m) ==
            IF m.args # <<>>
            THEN << "    try:",
                    "        # Force validation error",
                    "        obj." \o m.name \o "(" \o Args(m, "edge") \o ")",
                    "    except Exception: pass" >>
            ELSE <<>>
        AccessEdge(m) ==
            IF m.args # <<>>
            THEN << "    try:",
                    "        # Force logic branch failure",
                    "        obj." \o m.name \o "(" \o Args(m, "edge") \o ")",
                    "    except Exception: pass" >>
            ELSE <<>>
        Scenario(mutators, accessors, init_arg_str) ==
            IF mutators = <<>> THEN <<>>
            ELSE
            << "def test_" \o class_name \o "_scenario_lifecycle():",
               "    \"\"\"Test complete lifecycle: Init -> Mutate -> Access\"\"\"",
               "    from source import " \o class_name,
               "    import tempfile",
               "    ",
               "    # FIX 14: Setup Mock Content",
               "    import json",
               "    try:",
               "        # Write valid JSON to the temp file expected by arguments",
               "        if '" \o (IF Contains(init_arg_str, "json") THEN "True" ELSE "False") \o "':",
               "             with open(" \o init_arg_str \o ", 'w') as f:",
               "                 json.dump({'TestUrun': {'fiyat': 100, 'stok': 100}, "
                   \o "'1': {'baslik': 'Test', 'oncelik': 1}}, f)",
               "    except Exception: pass",
               "    ",
               "    # 1. Initialize",
               "    try:",
               "        obj = " \o class_name \o "(" \o init_arg_str \o ")",
               "    except TypeError:",
               "        obj = " \o class_name \o "()",
               "    except Exception: pass",
               "    ",
               "    # 2. Mutate State (Populate)" >>
            \o Flatten([i \in DOMAIN mutators |-> Mutate(mutators[i])])
            \o << "    ", "    # 3. Access State (Verify)" >>
            \o Flatten([i \in DOMAIN accessors |-> Access(accessors[i])])
            \o << "    ", "    # 4. Negative Scenarios (Edge Cases)" >>
            \o Flatten([i \in DOMAIN mutators |-> MutateEdge(mutators[i])])
            \o Flatten([i \in DOMAIN accessors |-> AccessEdge(accessors[i])])
            \o << "" >>
    IN Scenario(Mutators(methods), Accessors(methods),
                IF init_args # <<>>
                THEN _generate_comprehensive_args(init_args, "normal",
                                                  InitFuncInfo(init_args), analysis, seed, 1)
                ELSE "")

\* Lines 243-445: everything the class loop appends for one class.
ClassTests(class_info, analysis, seed) ==
    LET class_name == class_info.name
        init_args == class_info.init_args
        methods == class_info.methods
        all_string_literals ==
            UNION {methods[i].string_literals : i \in DOMAIN methods}
    IN << "# Comprehensive tests for " \o class_name \o " class", "" >>
       \o InstantiationTest(class_name, init_args, all_string_literals, seed)
       \o AllMethodsTest(class_name, methods, analysis, seed)
       \o UserTypesTest(class_name, all_string_literals, seed)
       \o LifecycleTest(class_name, init_args, methods, analysis, seed)

\* Lines 447-523: what the function loop appends for one function.
\* init_args is the variable the class loop left behind: the constructor
\* arguments of the last class of the analysis.
FunctionTests(func, init_args, analysis, seed) ==
    LET func_name == func.name
        args == func.args
        is_method == func.is_method
        class_name == func.class_name
        OnObject == is_method /\ class_name # None
        EdgeCase(i, edge_input) ==
            << "    # Edge Case " \o ToString(i) \o ": " \o edge_input,
               "    with pytest.raises((ValueError, TypeError, ZeroDivisionError)):",
               "        " \o (IF OnObject THEN "obj." ELSE "") \o func_name
                   \o "(*" \o edge_input \o ")" >>
        ValidInput(valid_args) ==
            << "def test_" \o func_name \o "_valid_input():",
               "    \"\"\"Test " \o func_name \o " with valid inputs (Happy Path)\"\"\"" >>
            \o (IF OnObject
                THEN << "    from source import " \o class_name,
                        IF init_args # <<>>
                        THEN "    obj = " \o class_name \o "("
                               \o _generate_comprehensive_args(
                                      init_args, "normal", InitFuncInfo(init_args),
                                      analysis, seed, 1) \o ")"
                        ELSE "    obj = " \o class_name \o "()",
                        "    # Expect success",
                        "    result = obj." \o func_name \o "(" \o valid_args \o ")",
                        "    # Verify return (if expected)",
                        "    assert result is not None, 'Function returned None unexpectedly'" >>
                ELSE << "    from source import " \o func_name,
                        "    # Expect success",
                        "    result = " \o func_name \o "(" \o valid_args \o ")",
                        "    assert result is not None" >>)
            \o << "" >>
        InvalidInput(edge_inputs) ==
            << "def test_" \o func_name \o "_invalid_input():",
               "    \"\"\"Test " \o func_name \o " with invalid inputs (Edge Cases)\"\"\"" >>
            \o (IF OnObject
                THEN << "    from source import " \o class_name,
                        "    obj = " \o class_name \o "()" >>
                ELSE << "    from source import " \o func_name >>)
            \o Flatten([i \in DOMAIN edge_inputs |-> EdgeCase(i, edge_inputs[i])])
            \o << "" >>
        Execution ==
            << "def test_" \o func_name \o "_execution():",
               "    \"\"\"Test " \o func_name \o " execution\"\"\"" >>
            \o (IF OnObject
                THEN << "    from source import " \o class_name,
                        "    obj = " \o class_name \o "()",
                        "    obj." \o func_name \o "()" >>
                ELSE << "    from source import " \o func_name,
                        "    " \o func_name \o "()" >>)
            \o << "" >>
    IN IF func_name = "__init__" THEN <<>>
       ELSE << "# Tests for " \o func_name, "" >>
            \o (IF args # <<>>
                THEN ValidInput(_generate_comprehensive_args(args, "normal", func, analysis,
                                                             seed, 1))
                     \o InvalidInput(Take(_generate_edge_case_inputs(args, func), 3))
                ELSE Execution)

\* Whether a call below the composer hit the recursion limit: the
\* RecursionError is caught nowhere and leaves the composer.
Raises(lines) == \E i \in DOMAIN lines : Contains(lines[i], RecursionError)

\* generate_tests_with_ai(source_code, language, use_ai=False), in a process
\* with hash order seed: the test text and the explanation, or the exception.
generate_tests_with_ai(source_code, seed) ==
    LET Tests(analysis, classes, functions) ==
            << "import pytest",
               "from typing import Any",
               "# Auto-generated comprehensive tests for 90%+ coverage",
               "" >>
            \o Flatten([i \in DOMAIN classes |-> ClassTests(classes[i], analysis, seed)])
            \o Flatten([i \in DOMAIN functions |->
                  FunctionTests(functions[i],
                                IF classes = <<>> THEN <<>>
                                ELSE classes[Len(classes)].init_args,
                                analysis, seed)])
        Result(functions, tests) ==
            IF Raises(tests)
            THEN [raised |-> TRUE, test_code |-> "", explanation |-> ""]
            ELSE [raised |-> FALSE,
                  test_code |-> Join(tests, "\n"),
                  explanation |-> "Enhanced AST: Generated " \o ToString(Len(functions))
                      \o " comprehensive test suites with " \o ToString(Len(tests))
                      \o " test cases for 90%+ coverage"]
        Generate(analysis) ==
            IF analysis.functions = <<>>
            THEN [raised |-> FALSE,
                  test_code |-> "# No functions found to test",
                  explanation |-> "No testable code"]
            ELSE Result(analysis.functions,
                        Tests(analysis, analysis.classes, analysis.functions))
    IN Generate(analyze_code_structure(source_code))

-----------------------------------------------------------------------------
(* gemini_analyzer.py and generate_tests_with_ai with use_ai=True.  What   *)
(* the advisory service does is not decided by the program.               *)

\* The markdown fence, three backquotes.  A TLA+ string cannot hold a
\* backquote: the model writes the fence with tildes.
Fence == "~~~"

\* The texts response.text can be.
ResponseTexts ==
    {"", "  \n ", "Sorry, I cannot help with that.", "# Error: nothing",
     "Here:\n" \o Fence \o "python\nimport pytest\ndef test_a(): pass\n" \o Fence \o "\nbye",
     Fence \o "\nimport pytest\n" \o Fence, "Tests:\n  import pytest\ndef test_a(): pass"}

\* Line 29 of gemini_analyzer.py.
max_retries == 1

\* What one call of model.generate_content does: it returns a response or
\* raises an exception with a message.
ServiceOutcomes ==
    {"ok", "429 Too Many Requests", "Quota exceeded for the project",
     "503 unavailable", "invalid argument"}

\* _generate_with_retry retrying after every exception.
_generate_with_retry_after_any_error(outcomes) ==
    LET Exits(attempt) == outcomes[attempt + 1] = "ok" \/ attempt >= max_retries
        last == CHOOSE a \in 0..max_retries : Exits(a) /\ \A b \in 0..(a - 1) : ~Exits(b)
    IN [calls |-> last + 1, sleeps |-> last,
        raised |-> outcomes[last + 1] # "ok",
        error |-> IF outcomes[last + 1] # "ok" THEN outcomes[last + 1] ELSE ""]

\* _generate_with_retry(model, prompt), the k-th call of
\* model.generate_content behaving as outcomes[k]: the loop of lines 32-42
\* leaves at the first attempt that returns, or that raises an exception
\* which is not of the rate-limit class or comes at the last attempt.
_generate_with_retry(outcomes) ==
    LET e(attempt) == outcomes[attempt + 1]
        Retried(attempt) ==
            /\ e(attempt) # "ok"
            /\ Contains(e(attempt), "429") \/ Contains(Lower(e(attempt)), "quota")
            /\ attempt < max_retries
        last == CHOOSE a \in 0..max_retries : ~Retried(a) /\ \A b \in 0..(a - 1) : Retried(b)
    IN [calls |-> last + 1, sleeps |-> last,
        raised |-> e(last) # "ok",
        error |-> IF e(last) # "ok" THEN e(last) ELSE ""]

\* What the service does for one request: the package cannot be imported,
\* no API key is configured, the call or response.text raises, or a text is
\* returned.
GeminiBehaviours ==
    {[kind |-> k, text |-> ""] : k \in {"import_error", "not_configured", "raises"}}
    \cup {[kind |-> "text", text |-> x] : x \in ResponseTexts}

\* Lines 328-336 of gemini_analyzer.py: the code between markdown fences.
CleanMarkdown(text) ==
    LET After(s, sep) == SubSeq(s, FindFrom(s, sep, 1) + Len(sep), Len(s))
        Before(s, sep) == IF Contains(s, sep) THEN SubSeq(s, 1, FindFrom(s, sep, 1) - 1)
                          ELSE s
    IN IF Contains(text, Fence \o "python") THEN Strip(Before(After(text, Fence \o "python"), Fence))
       ELSE IF Contains(text, Fence)
       THEN IF Contains(After(text, Fence), Fence)
            THEN Strip(Before(After(text, Fence), Fence))
            ELSE text
       ELSE text

\* Lines 338-344 of gemini_analyzer.py: the text from its first line that
\* starts an import or a test on.
FromFirstCodeLine(text) ==
    LET starts == {1} \cup {i + 1 : i \in {j \in 1..(Len(text) - 1) :
                                              SubSeq(text, j, j) = "\n"}}
        LineAt(p) == SubSeq(text, p,
                            IF FindFrom(text, "\n", p) = 0 THEN Len(text)
                            ELSE FindFrom(text, "\n", p) - 1)
        code == {p \in starts : \/ StartsWith(Strip(LineAt(p)), "import")
                                 \/ StartsWith(Strip(LineAt(p)), "def test_")}
    IN IF StartsWith(text, "import") \/ code = {} THEN text
       ELSE SubSeq(text, CHOOSE p \in code : \A q \in code : p <= q, Len(text))

\* generate_tests_directly(source_code, language), the service behaving as
\* service.
generate_tests_directly(source_code, service) ==
    IF service.kind = "not_configured"
    THEN [test_code |-> "# Gemini API not configured",
          explanation |-> "Error: API not available"]
    ELSE IF service.kind = "raises"
    THEN [test_code |-> "# Error generating tests: 503 unavailable",
          explanation |-> "Generation failed: 503 unavailable"]
    ELSE [test_code |-> FromFirstCodeLine(CleanMarkdown(Strip(service.text))),
          explanation |-> "Generated comprehensive tests using Gemini AI for 90%+ coverage"]

\* generate_tests_with_ai(source_code, language, use_ai=True), in a process
\* with hash order seed: lines 212-227, then the heuristic composer.
generate_tests_with_ai_use_ai(source_code, service, seed) ==
    LET Accept(r) ==
            IF r.test_code # "" /\ ~StartsWith(r.test_code, "# Error")
            THEN [raised |-> FALSE, test_code |-> r.test_code,
                  explanation |-> "AI-Generated: " \o r.explanation]
            ELSE generate_tests_with_ai(source_code, seed)
    IN IF service.kind = "import_error" THEN generate_tests_with_ai(source_code, seed)
       ELSE Accept(generate_tests_directly(source_code, service))

-----------------------------------------------------------------------------
(* generator.py: improve_tests_with_coverage with use_ai=False. *)

\* A selection whose range leaves out the last line of the function.
TargetFunctionsExclusiveEnd(analysis, missing_lines) ==
    IF missing_lines # <<>>
    THEN SelectSeq(analysis.functions,
                   LAMBDA func : \E line \in func.lineno..(func.end_lineno - 1) :
                                    \E i \in DOMAIN missing_lines : missing_lines[i] = line)
    ELSE analysis.functions

\* Lines 567-577: the functions with a missing line in their source range;
\* every function when there is no line information.
TargetFunctions(analysis, missing_lines) ==
    IF missing_lines # <<>>
    THEN SelectSeq(analysis.functions,
                   LAMBDA func : \E line \in func.lineno..func.end_lineno :
                                    \E i \in DOMAIN missing_lines : missing_lines[i] = line)
    ELSE analysis.functions

\* Lines 592-616: get_setup_block(is_method, class_name) for function func.
get_setup_block(func, analysis, seed) ==
    LET class_name == func.class_name
        classes == analysis.classes
        named == {i \in DOMAIN classes : classes[i].name = class_name}
        init_args == IF named = {} THEN <<>>
                     ELSE classes[CHOOSE i \in named : \A j \in named : i <= j].init_args
    IN IF func.is_method /\ class_name # None
       THEN << "    from source import " \o class_name,
               "    import tempfile",
               "    import os" >>
            \o (IF init_args # <<>>
                THEN << "    try:",
                        "        obj = " \o class_name \o "("
                            \o _generate_comprehensive_args(
                                   init_args, "normal", InitFuncInfo(init_args),
                                   analysis, seed, 1) \o ")",
                        "    except TypeError:",
                        "        obj = " \o class_name \o "()" >>
                ELSE << "    obj = " \o class_name \o "()" >>)
       ELSE << "    from source import " \o func.name >>

\* The kinds tested with the file-backed kind before the directory-backed.
TargetKindFileFirst(func) ==
    LET Kind(args_str) ==
            LET is_dir_util == \/ "dir_op" \in func.body_indicators
                               \/ /\ AnyIn({"directory", "dir", "folder", "path"}, args_str)
                                  /\ ~Contains(args_str, "file")
                is_file_util == \/ "file_op" \in func.body_indicators
                                \/ AnyIn({"file", "filepath", "filename"}, args_str)
            IN IF is_file_util THEN "file"
               ELSE IF is_dir_util \/ Contains(Lower(func.name), "search") THEN "directory"
               ELSE IF func.dict_keys # {} THEN "dict"
               ELSE "generic"
    IN Kind(Lower(Join(func.args, " ")))

\* Lines 618-626: the kind of targeted block a function gets.
TargetKind(func) ==
    LET Kind(args_str) ==
            LET is_dir_util == \/ "dir_op" \in func.body_indicators
                               \/ /\ AnyIn({"directory", "dir", "folder", "path"}, args_str)
                                  /\ ~Contains(args_str, "file")
                is_file_util == \/ "file_op" \in func.body_indicators
                                \/ AnyIn({"file", "filepath", "filename"}, args_str)
            IN IF is_dir_util \/ Contains(Lower(func.name), "search") THEN "directory"
               ELSE IF is_file_util THEN "file"
               ELSE IF func.dict_keys # {} THEN "dict"
               ELSE "generic"
    IN Kind(Lower(Join(func.args, " ")))

\* Lines 579-684: what the loop over target_functions appends for one target.
TargetedTests(func, analysis, seed) ==
    LET func_name == func.name
        args == func.args
        dict_keys == ListOfSet(func.dict_keys, seed)
        string_literals == ListOfSet(func.string_literals, seed)
        call_prefix == IF func.is_method /\ func.class_name # None THEN "obj." ELSE ""
        param_types == func.param_types
        TypeValidation ==
            IF \E a \in DOMAIN param_types : param_types[a] = "int"
            THEN << "    ", "    # Type Validation" >>
                 \o Flatten([i \in 1..3 |->
                      << "    with pytest.raises((TypeError, ValueError)):",
                         "        " \o call_prefix \o func_name \o "("
                             \o <<"'invalid_string'", "None", "[]">>[i] \o ")" >>])
            ELSE <<>>
        Block(kind, setup) ==
            IF kind = "directory"
            THEN << "\ndef test_" \o func_name \o "_directory_targeted():" >>
                 \o setup
                 \o << "    import tempfile",
                       "    import shutil",
                       "    temp_dir = tempfile.mkdtemp()",
                       "    try:",
                       "        # Expect success on valid directory",
                       "        " \o call_prefix \o func_name \o "(temp_dir)",
                       "    finally:",
                       "        shutil.rmtree(temp_dir)" >>
            ELSE IF kind = "file"
            THEN << "\ndef test_" \o func_name \o "_file_targeted():" >>
                 \o setup
                 \o << "    import tempfile",
                       "    import os",
                       "    with tempfile.NamedTemporaryFile(mode='w', suffix='.txt', delete=False) as f:",
                       "        f.write('test content')",
                       "        temp_path = f.name",
                       "    try:",
                       "        # Expect success on valid file",
                       "        " \o call_prefix \o func_name \o "(temp_path)",
                       "    finally:",
                       "        try: os.unlink(temp_path)",
                       "        except: pass" >>
            ELSE IF kind = "dict"
            THEN << "\ndef test_" \o func_name \o "_dict_targeted():" >>
                 \o setup
                 \o << "    # Targeted dict test (Happy Path)",
                       "    " \o call_prefix \o func_name \o "(["
                           \o _build_dict_from_keys(dict_keys, string_literals) \o "])" >>
            ELSE << "\ndef test_" \o func_name \o "_targeted():" >>
                 \o setup
                 \o << "    # Happy Path",
                       "    " \o call_prefix \o func_name \o "("
                           \o _generate_comprehensive_args(args, "normal", func, analysis, seed, 1)
                           \o ")" >>
                 \o TypeValidation
    IN IF func_name = "__init__" THEN <<>>
       ELSE Block(TargetKind(func), get_setup_block(func, analysis, seed))

\* The first line of every block improve_tests_with_coverage appends.
TargetedHeader == "\n\n# Targeted tests for uncovered branches"

\* A composition that drops the tests held so far.
improved_tests_rewritten(current_tests, additional_tests) ==
    Join(additional_tests, "\n")

\* Line 686: improved_tests = current_tests + "\n".join(additional_tests)
improved_tests(current_tests, additional_tests) ==
    current_tests \o Join(additional_tests, "\n")

\* improve_tests_with_coverage(source_code, current_tests, missing_lines,
\* current_coverage, use_ai=False), in a process with hash order seed.
improve_tests_with_coverage(source_code, current_tests, missing_lines, seed) ==
    LET AdditionalTests(analysis, targets) ==
            << TargetedHeader >>
            \o Flatten([i \in DOMAIN targets |->
                          TargetedTests(targets[i], analysis, seed)])
        Result(targets, additional_tests) ==
            IF Raises(additional_tests)
            THEN [raised |-> TRUE, test_code |-> current_tests, explanation |-> "",
                  target_functions |-> targets]
            ELSE [raised |-> FALSE,
                  test_code |-> improved_tests(current_tests, additional_tests),
                  explanation |-> "Added " \o ToString(Len(additional_tests))
                      \o " targeted branch tests",
                  target_functions |-> targets]
        Targeted(analysis, targets) ==
            Result(targets, AdditionalTests(analysis, targets))
        Improved(analysis) == Targeted(analysis, TargetFunctions(analysis, missing_lines))
    IN Improved(analyze_code_structure(source_code))

-----------------------------------------------------------------------------
(* The requests of the model: the source files submitted. *)

\* def add(a, b):
\*     return a + b
SrcAdd == Module(<< FunctionDef("add", <<"a", "b">>, 1, 2, <<>>, ReturnSum("a", "b")) >>)

\* def f(data):
\*     return data['alpha'] + data.get('beta')
SrcKeys ==
    Module(<< FunctionDef("f", <<"data">>, 1, 2, <<>>,
                          << Stmt("Return"), Stmt("BinOp") >>
                          \o SubscriptExpr("data", "alpha") \o GetExpr("data", "beta")) >>)

\* async def fetch(url):
\*     return url
SrcAsync ==
    Module(<< AsyncFunctionDef("fetch", <<"url">>, 1, 2, <<>>,
                               << Stmt("Return"), Name("url", Stmt("Return")) >>) >>)

\* @app.get('/x')
\* def read_root():
\*     return 1
SrcRoute ==
    Module(<< FunctionDef("read_root", <<>>, 2, 3, GetExpr("app", "/x"), ReturnNum(1)) >>)

\* class Cart:
\*     def __init__(self, name):
\*         self.name = name
\*         self.items = []
\*     def add_item(self, price):
\*         self.items.append(price)
\*     def get_total(self):
\*         return sum(self.items)
SrcCart ==
    Module(<< ClassDef("Cart", <<
        FunctionDef("__init__", <<"self", "name">>, 2, 4, <<>>,
                    << Stmt("Assign"), Stmt("Attribute"), Name("self", Stmt("Attribute")),
                       Name("name", Stmt("Assign")), Stmt("Assign"), Stmt("Attribute"),
                       Stmt("List"), Name("self", Stmt("Attribute")) >>),
        FunctionDef("add_item", <<"self", "price">>, 5, 6, <<>>,
                    << Stmt("Expr") >> \o MethodCall("append", "price")
                    \o << Stmt("Attribute"), Name("self", Stmt("Attribute")) >>),
        FunctionDef("get_total", <<"self">>, 7, 8, <<>>,
                    << Stmt("Return"), Call(FuncName("sum"), <<Attribute("items")>>),
                       Name("sum", Call(FuncName("sum"), <<Attribute("items")>>)),
                       Stmt("Attribute"), Name("self", Stmt("Attribute")) >>) >>) >>)

\* import os            (lines 1-7: imports and constants)
\* def check(quantity):             (lines 8-12)
\*     if quantity > 100:
\*         return 'bulk'
\*     return 'ok'
\* def total(items):                (lines 14-20)
\*     result = 0
\*     for item in items:
\*         result = result + item
\*     return result
SrcTwo ==
    Module(<< Stmt("Import"),
              FunctionDef("check", <<"quantity">>, 8, 12, <<>>,
                          IfCompareNum("quantity", "Gt", 100) \o ReturnStr("bulk")
                          \o ReturnStr("ok")),
              FunctionDef("total", <<"items">>, 14, 20, <<>>,
                          << Stmt("Assign"), Stmt("For"), Name("items", Stmt("For")),
                             Stmt("Assign"), Stmt("BinOp"), Stmt("Return") >>) >>)

\* def f(:
SrcBad == SyntaxError

\* class any:
\*     def __init__(self, x):
\*         self.x = x
\*     def flush(self):
\*         return 1
SrcAny ==
    Module(<< ClassDef("any", <<
        FunctionDef("__init__", <<"self", "x">>, 2, 3, <<>>,
                    << Stmt("Assign"), Stmt("Attribute"), Name("x", Stmt("Assign")),
                       Name("self", Stmt("Attribute")) >>),
        FunctionDef("flush", <<"self">>, 4, 5, <<>>, ReturnNum(1)) >>) >>)

\* class any:
\*     def __init__(self, x):
\*         self.x = x
\*     def add(self, v):
\*         return 1
SrcAnyAdd ==
    Module(<< ClassDef("any", <<
        FunctionDef("__init__", <<"self", "x">>, 2, 3, <<>>,
                    << Stmt("Assign"), Stmt("Attribute"), Name("x", Stmt("Assign")),
                       Name("self", Stmt("Attribute")) >>),
        FunctionDef("add", <<"self", "v">>, 4, 5, <<>>, ReturnNum(1)) >>) >>)

\* def label(status):
\*     if status == 'vip':
\*         return 'gold'
\*     return 'plain'
SrcLabel ==
    Module(<< FunctionDef("label", <<"status">>, 1, 4, <<>>,
                          IfCompareStr("status", "Eq", "vip") \o ReturnStr("gold")
                          \o ReturnStr("plain")) >>)

\* x = 1
SrcEmpty == Module(<< Stmt("Assign") >>)

\* def load(filename):
\*     return open(filename).read()
\* def search_dir(directory):
\*     return os.listdir(directory)
\* def export(target):
\*     os.makedirs(target)
\*     return open(target).read()
SrcFiles ==
    Module(<< FunctionDef("load", <<"filename">>, 1, 2, <<>>,
                          << Stmt("Return"), Call(Attribute("read"), <<>>), Attribute("read") >>
                          \o OpenCall("filename")),
              FunctionDef("search_dir", <<"directory">>, 3, 4, <<>>,
                          << Stmt("Return") >> \o MethodCall("listdir", "directory")
                          \o << Name("os", Attribute("listdir")) >>),
              FunctionDef("export", <<"target">>, 5, 7, <<>>,
                          << Stmt("Expr") >> \o MethodCall("makedirs", "target")
                          \o << Name("os", Attribute("makedirs")) >>
                          \o << Stmt("Return"), Call(Attribute("read"), <<>>),
                                Attribute("read") >>
                          \o OpenCall("target")) >>)

\* class Store:
\*     def add_item(self, price):
\*         return price
\*     def get_address(self):
\*         return 1
\*     def flush(self):
\*         return 1
\*     async def sync(self):
\*         return 1
\*     def set_price(self, item, price):
\*         return price
SrcStore ==
    Module(<< ClassDef("Store", <<
        FunctionDef("add_item", <<"self", "price">>, 2, 3, <<>>,
                    << Stmt("Return"), Name("price", Stmt("Return")) >>),
        FunctionDef("get_address", <<"self">>, 4, 5, <<>>, ReturnNum(1)),
        FunctionDef("flush", <<"self">>, 6, 7, <<>>, ReturnNum(1)),
        AsyncFunctionDef("sync", <<"self">>, 8, 9, <<>>, ReturnNum(1)),
        FunctionDef("set_price", <<"self", "item", "price">>, 10, 11, <<>>,
                    << Stmt("Return"), Name("price", Stmt("Return")) >>) >>) >>)

\* class Account:
\*     def __init__(self, owner):
\*         self.owner = owner
\*     def record(self, amount):
\*         return amount
\* class Ledger:
\*     def record(self, entry):
\*         return entry
SrcBank ==
    Module(<< ClassDef("Account", <<
        FunctionDef("__init__", <<"self", "owner">>, 2, 3, <<>>,
                    << Stmt("Assign"), Stmt("Attribute"), Name("owner", Stmt("Assign")),
                       Name("self", Stmt("Attribute")) >>),
        FunctionDef("record", <<"self", "amount">>, 4, 5, <<>>,
                    << Stmt("Return"), Name("amount", Stmt("Return")) >>) >>),
              ClassDef("Ledger", <<
        FunctionDef("record", <<"self", "entry">>, 7, 8, <<>>,
                    << Stmt("Return"), Name("entry", Stmt("Return")) >>) >>) >>)

Sources == { SrcAdd, SrcKeys, SrcAsync, SrcRoute, SrcCart, SrcTwo, SrcBad, SrcAny,
             SrcAnyAdd, SrcLabel, SrcEmpty, SrcFiles, SrcStore, SrcBank }

-----------------------------------------------------------------------------
(* coverage.py: the coverage runner, an external process.  What it answers *)
(* is not decided by the program: any percentage, any missing-line list,   *)
(* or the zero result with an error marker when the run fails.             *)

CoveragePercents == {50, 90, 95}
MissingLists == { <<>>, <<2>>, <<3>>, <<10, 11>> }

\* The file names of the requests of the model.
FileNames == {"uploaded.py", "src/utils.py"}

\* s.replace(old, new), old a single character.
RECURSIVE Replace(_, _, _)
Replace(s, old, new) ==
    IF s = "" THEN ""
    ELSE (IF SubSeq(s, 1, 1) = old THEN new ELSE SubSeq(s, 1, 1))
         \o Replace(SubSeq(s, 2, Len(s)), old, new)

\* Lines 14-16: os.path.splitext(filename)[0], its '-' and '.' replaced.
SourceName(filename) ==
    LET Last(c) == IF Contains(filename, c)
                   THEN CHOOSE i \in 1..Len(filename) :
                          /\ SubSeq(filename, i, i) = c
                          /\ \A j \in (i + 1)..Len(filename) : SubSeq(filename, j, j) # c
                   ELSE 0
        Root(dot, sep) ==
            IF dot > sep + 1 THEN SubSeq(filename, 1, dot - 1) ELSE filename
    IN Replace(Replace(Root(Last("."), Last("/")), "-", "_"), ".", "_")

\* Lines 18-24, outside the try of line 44: the source file is written into
\* the fresh temporary directory; open() raises FileNotFoundError when the
\* name puts it into a subdirectory, which does not exist.
WriteRaises(filename) == Contains(SourceName(filename), "/")

\* Lines 22-24: the file the runner measures is the line
\* "# -*- coding: utf-8 -*-" followed by source_code, so line number line of
\* source_code is this line of the measured file, the one coverage reports.
SandboxLine(line) == line + 1

\* The runner raising instead of answering.
RunnerRaised ==
    [raised |-> TRUE, coverage_percent |-> 0, missing_lines |-> <<>>, error |-> TRUE]

\* run_coverage_analysis_logic(source_code, test_code, filename): the answers
\* it can give.
run_coverage_analysis_logic(source_code, tests, filename) ==
    IF WriteRaises(filename) THEN {RunnerRaised}
    ELSE { [raised |-> FALSE, coverage_percent |-> p, missing_lines |-> m, error |-> FALSE] :
             p \in CoveragePercents, m \in MissingLists }
         \cup { [raised |-> FALSE, coverage_percent |-> 0, missing_lines |-> <<>>,
                 error |-> TRUE] }

-----------------------------------------------------------------------------
(* main.py: generate_tests_endpoint, the /generate-tests request. *)

max_iterations == 3
CoverageTarget == 90

NoResult == [none |-> TRUE]

\* Lines 57 and 79: request.file_name or "uploaded.py"
FileNameOf(name) == IF name = "" THEN "uploaded.py" ELSE name

\* No function of the generator is called on its own during a request.
NoCall == [op |-> "none"]

Init ==
    /\ pc = "Start"
    /\ source \in Sources
    /\ hashseed \in HashSeeds
    /\ test_code = ""
    /\ explanation = ""
    /\ coverage_result = NoResult
    /\ coverage_pct = 0
    /\ iterations = 0
    /\ improve_calls = 0
    /\ measured_tests = ""
    /\ measurements = <<>>
    /\ target_functions = <<>>
    /\ response = NoResult
    /\ file_name \in FileNames
    /\ call = NoCall
    /\ result = NoResult

\* Lines 50-54: the initial generation.  An exception leaving the generator
\* ends the request without a response.
GenerateTests ==
    /\ pc = "Start"
    /\ \E r \in {generate_tests_with_ai(source, hashseed)} :
          IF r.raised
          THEN pc' = "Raised" /\ UNCHANGED <<test_code, explanation>>
          ELSE /\ pc' = "Generated"
               /\ test_code' = r.test_code
               /\ explanation' = r.explanation
    /\ UNCHANGED <<call, result, file_name>>
    /\ UNCHANGED <<source, hashseed, coverage_result, coverage_pct, iterations,
                   improve_calls, measured_tests, measurements, target_functions,
                   response>>

\* Lines 57-58 and 79-80: a coverage run on the suite held.
RunCoverage ==
    /\ pc \in {"Generated", "Targeted"}
    /\ \E r \in run_coverage_analysis_logic(source, test_code, FileNameOf(file_name)) :
          IF r.raised
          THEN /\ pc' = "Raised"
               /\ UNCHANGED <<coverage_result, coverage_pct, measurements, measured_tests>>
          ELSE /\ coverage_result' = r
               /\ coverage_pct' = r.coverage_percent
               /\ measurements' = Append(measurements, r.coverage_percent)
               /\ measured_tests' = test_code
               /\ pc' = "Measured"
    /\ UNCHANGED <<call, result, file_name>>
    /\ UNCHANGED <<source, hashseed, test_code, explanation, iterations, improve_calls,
                   target_functions, response>>

\* A loop condition that allows one round too many.
LoopConditionOffByOne(pct, its) == pct < CoverageTarget /\ its <= max_iterations

\* A loop condition that still refines a suite that has reached the target.
LoopConditionAtTarget(pct, its) == pct <= CoverageTarget /\ its < max_iterations

\* Line 64: the condition of the while loop.
LoopCondition(pct, its) == pct < CoverageTarget /\ its < max_iterations

\* Lines 82-86: the response.
Return ==
    /\ response' = [test_code |-> test_code, explanation |-> explanation,
                    coverage_estimate |-> coverage_pct]
    /\ pc' = "Done"

\* Line 64 false: the loop is left and the response returned.
ExitLoop ==
    /\ pc = "Measured"
    /\ ~LoopCondition(coverage_pct, iterations)
    /\ Return
    /\ UNCHANGED <<call, result, file_name>>
    /\ UNCHANGED <<source, hashseed, test_code, explanation, coverage_result,
                   coverage_pct, iterations, improve_calls, measured_tests,
                   measurements, target_functions>>

\* Lines 64-67: the loop is entered and broken for want of missing lines.
BreakLoop ==
    /\ pc = "Measured"
    /\ LoopCondition(coverage_pct, iterations)
    /\ iterations' = iterations + 1
    /\ coverage_result.missing_lines = <<>>
    /\ Return
    /\ UNCHANGED <<call, result, file_name>>
    /\ UNCHANGED <<source, hashseed, test_code, explanation, coverage_result,
                   coverage_pct, improve_calls, measured_tests, measurements,
                   target_functions>>

\* A regeneration round that goes back to the loop condition without the
\* coverage run of lines 79-80.
ImproveWithoutRemeasure ==
    /\ pc = "Measured"
    /\ coverage_pct < CoverageTarget /\ iterations < max_iterations
    /\ iterations' = iterations + 1
    /\ coverage_result.missing_lines # <<>>
    /\ improve_calls' = improve_calls + 1
    /\ \E r \in {improve_tests_with_coverage(source, test_code,
                                              coverage_result.missing_lines, hashseed)} :
          /\ target_functions' = r.target_functions
          /\ IF r.raised
             THEN pc' = "Raised" /\ UNCHANGED <<test_code, explanation>>
             ELSE /\ pc' = "Measured"
                  /\ test_code' = r.test_code
                  /\ explanation' = explanation \o " | Iter " \o ToString(iterations')
                                      \o ": " \o r.explanation
    /\ UNCHANGED <<call, result, file_name>>
    /\ UNCHANGED <<source, hashseed, coverage_result, coverage_pct, measured_tests,
                   measurements, response>>

\* Lines 64-76: one regeneration round.  An exception leaving
\* improve_tests_with_coverage ends the request without a response.
Improve ==
    /\ pc = "Measured"
    /\ LoopCondition(coverage_pct, iterations)
    /\ iterations' = iterations + 1
    /\ coverage_result.missing_lines # <<>>
    /\ improve_calls' = improve_calls + 1
    /\ \E r \in {improve_tests_with_coverage(source, test_code,
                                              coverage_result.missing_lines, hashseed)} :
          /\ target_functions' = r.target_functions
          /\ IF r.raised
             THEN pc' = "Raised" /\ UNCHANGED <<test_code, explanation>>
             ELSE /\ pc' = "Targeted"
                  /\ test_code' = r.test_code
                  /\ explanation' = explanation \o " | Iter " \o ToString(iterations')
                                      \o ": " \o r.explanation
    /\ UNCHANGED <<call, result, file_name>>
    /\ UNCHANGED <<source, hashseed, coverage_result, coverage_pct, measured_tests,
                   measurements, response>>

Next == GenerateTests \/ RunCoverage \/ ExitLoop \/ BreakLoop \/ Improve

Spec == Init /\ [][Next]_vars

\* The request is one synchronous call chain: a step that can be taken is taken.
FairSpec == Spec /\ WF_vars(Next)

-----------------------------------------------------------------------------
(* improve_tests_with_coverage called on its own, with any current test    *)
(* text and any answer of the runner, an empty missing-line list included. *)

InitImprove ==
    /\ pc = "ImproveCall"
    /\ source \in Sources
    /\ hashseed \in HashSeeds
    /\ test_code \in {"", "import pytest"}
    /\ explanation = ""
    /\ file_name = "uploaded.py"
    /\ coverage_result \in run_coverage_analysis_logic(source, test_code, file_name)
    /\ coverage_pct = coverage_result.coverage_percent
    /\ iterations = 0
    /\ improve_calls = 0
    /\ measured_tests = test_code
    /\ measurements = <<coverage_pct>>
    /\ target_functions = <<>>
    /\ response = NoResult
    /\ call = NoCall
    /\ result = NoResult

ImproveCall ==
    /\ pc = "ImproveCall"
    /\ improve_calls' = improve_calls + 1
    /\ \E r \in {improve_tests_with_coverage(source, test_code,
                                              coverage_result.missing_lines, hashseed)} :
          /\ target_functions' = r.target_functions
          /\ IF r.raised
             THEN pc' = "Raised" /\ UNCHANGED <<test_code, explanation>>
             ELSE /\ pc' = "ImproveReturned"
                  /\ test_code' = r.test_code
                  /\ explanation' = r.explanation
    /\ UNCHANGED <<call, result, file_name>>
    /\ UNCHANGED <<source, hashseed, coverage_result, coverage_pct, iterations,
                   measured_tests, measurements, response>>

ImproveSpec == InitImprove /\ [][ImproveCall]_vars

-----------------------------------------------------------------------------
(* Functions of generator.py called on their own: the call is drawn from   *)
(* the calls of the model, the step applies the function to it.            *)

\* The comparisons a func_info can hold, in the order of the source; the
\* func_info of a call holds a slice of them.
SmartComparisons ==
    <<[left |-> "total", ops |-> <<"Gt">>, comparators |-> <<"7">>],
      [left |-> "quantity", ops |-> <<"Eq">>, comparators |-> <<"limit">>],
      [left |-> "status_code", ops |-> <<"GtE">>, comparators |-> <<"400">>],
      [left |-> "quantity", ops |-> <<"Gt">>, comparators |-> <<"100">>],
      [left |-> "quantity", ops |-> <<"Lt">>, comparators |-> <<"-5">>],
      [left |-> "len(quantity)", ops |-> <<"Gt">>, comparators |-> <<"10.5">>],
      [left |-> "quantity", ops |-> <<"LtE">>, comparators |-> <<"100">>],
      [left |-> "quantity", ops |-> <<"Gt">>, comparators |-> <<"50">>],
      [left |-> "Quantity", ops |-> <<"Gt">>, comparators |-> <<"1000">>],
      [left |-> "quantity", ops |-> <<"NotEq">>, comparators |-> <<"20">>],
      [left |-> "quantity", ops |-> <<"Gt">>, comparators |-> <<"30">>]>>

SmartCalls ==
    [op : {"_generate_smart_test_values"},
     param_name : {"quantity", "status_code"},
     param_type : {"float", "int", "str", "list", "bool", "dict", "any"},
     string_literals : {{}, {"vip", "gold"}},
     func_info : {[comparisons |-> SubSeq(SmartComparisons, i, j), dict_keys |-> keys] :
                    i \in {1, 3, 4}, j \in {2, 4, 6, 11},
                    keys \in {{}, {"price", "priority"}}}]

\* What a call of the function under test does with one edge-case tuple.
CallOutcomes == {"returns", "ValueError", "TypeError", "ZeroDivisionError", "KeyError"}

\* Line 502 and line 509, the wrapper the composer emits around every
\* edge-case call.
EdgeCaseWrapper == "    with pytest.raises((ValueError, TypeError, ZeroDivisionError)):"

\* The wrapper lines of the edge cases among the emitted lines of a test:
\* each follows the comment line of its edge case.
WrappersOf(lines) ==
    LET at == SelectSeq([i \in 1..Len(lines) |-> i],
                        LAMBDA i : i > 1 /\ StartsWith(lines[i - 1], "    # Edge Case "))
    IN [k \in DOMAIN at |-> lines[at[k]]]

\* A block run under the wrapper, as pytest defines pytest.raises: an
\* expected exception is swallowed, no exception fails the test (DID NOT
\* RAISE), any other exception leaves the test.
UnderWrapper(wrapper, outcome) ==
    IF wrapper = EdgeCaseWrapper
    THEN IF outcome \in {"ValueError", "TypeError", "ZeroDivisionError"} THEN "continue"
         ELSE IF outcome = "returns" THEN "failed"
         ELSE "error"
    ELSE IF outcome = "returns" THEN "continue" ELSE "error"

\* The emitted test test_<func>_invalid_input run by pytest: the verdict and
\* the number of edge-case tuples the function was called with.
RECURSIVE RunEdgeCases(_, _, _)
RunEdgeCases(wrappers, outcomes, i) ==
    IF i > Len(wrappers) THEN [verdict |-> "passed", exercised |-> Len(wrappers)]
    ELSE IF UnderWrapper(wrappers[i], outcomes[i]) = "continue"
    THEN RunEdgeCases(wrappers, outcomes, i + 1)
    ELSE [verdict |-> UnderWrapper(wrappers[i], outcomes[i]), exercised |-> i]

EdgeTestRuns ==
    [op : {"test_invalid_input"}, source_code : {SrcTwo, SrcStore}, func : {1, 2},
     outcomes : [1..3 -> CallOutcomes]]

\* The parameters whose type is inferred: def g(<param>): pass
InferCalls ==
    [op : {"_infer_parameter_types"},
     param : {"price", "total_count", "count", "name", "numbers", "config", "options",
              "items", "is_valid", "data", "x", "country", "index", "status", "Type",
              "zip_code", "arr", "can_edit"}]

\* The uses of a parameter in a body: def f(<param>): return <use>
UsageKinds ==
    {"subscript", "get", "keys", "values", "none", "argument_of_get", "get_then_subscript"}

\* The nodes ast.walk yields for the call p.attr() without arguments.
ReceiverCall(p, attr) ==
    << Call(Attribute(attr), <<>>), Attribute(attr), Name(p, Attribute(attr)) >>

\* The nodes ast.walk yields for p[0].
IndexExpr(p) == << Subscript(Num(0)), Name(p, Stmt("Subscript")), Num(0) >>

\* The walked body of def f(<param>) for one kind of use.
UsageBody(param, use) ==
    IF use = "subscript" THEN <<Stmt("Return")>> \o IndexExpr(param)
    ELSE IF use = "get" THEN <<Stmt("Return")>> \o GetExpr(param, "k")
    ELSE IF use \in {"keys", "values"} THEN <<Stmt("Return")>> \o ReceiverCall(param, use)
    ELSE IF use = "argument_of_get" THEN <<Stmt("Return")>> \o MethodCall("get", param)
    ELSE IF use = "get_then_subscript"
    THEN <<Stmt("Expr")>> \o GetExpr(param, "k") \o <<Stmt("Return")>> \o IndexExpr(param)
    ELSE ReturnNum(1)

\* The sources whose one function uses its one parameter in one way.
UsageCalls ==
    [op : {"analyze_code_structure"}, param : {"p", "x", "rec", "obj"}, use : UsageKinds]

\* The runs of an emitted lifecycle scenario: the call that fails (0 is the
\* construction obj = C(args), i > 0 the i-th method call of the scenario),
\* the exception it raises, and what the construction without arguments of
\* the TypeError handler does.
LifecycleRuns ==
    [op : {"test_scenario_lifecycle"}, source_code : {SrcCart}, failing : 0..3,
     error : {"TypeError", "ValueError", "KeyError"},
     fallback : {"returns", "TypeError"}]

\* The try statements among the emitted lines of a scenario, as Python
\* parses them: the statements of the body (the lines below 'try:', or the
\* statement on the line of 'try:') and the handlers in order, each with
\* the exception it catches and the statements of its body ('pass': none).
TryBlocks(lines) ==
    LET n == Len(lines)
        IsExcept(i) == StartsWith(lines[i], "    except")
        Deep(i) == StartsWith(lines[i], "        ")
        FirstFrom(i, P(_)) ==
            IF \E j \in i..n : P(j)
            THEN CHOOSE j \in i..n : P(j) /\ \A q \in i..(j - 1) : ~P(q)
            ELSE n + 1
        Stmts(a, b) == [q \in 1..(b - a + 1) |-> [text |-> lines[a + q - 1], line |-> a + q - 1]]
        Outside(j) == ~IsExcept(j) /\ ~Deep(j)
        Handler(q, e) ==
            [catches |-> SubSeq(lines[q], 12, FindFrom(lines[q], ":", 1) - 1),
             body |-> Stmts(q + 1, Min(FirstFrom(q + 1, IsExcept), e) - 1)]
        Handlers(j, e) ==
            LET at == SelectSeq([q \in 1..(e - j) |-> j + q - 1], IsExcept)
            IN [h \in DOMAIN at |-> Handler(at[h], e)]
        Block(i, j) ==
            [body |-> IF lines[i] = "    try:" THEN Stmts(i + 1, j - 1)
                      ELSE <<[text |-> SubSeq(lines[i], 10, Len(lines[i])), line |-> i]>>,
             handlers |-> Handlers(j, FirstFrom(j, Outside))]
        tries == SelectSeq([i \in 1..n |-> i], LAMBDA i : StartsWith(lines[i], "    try:"))
    IN [k \in DOMAIN tries |-> Block(tries[k], FirstFrom(tries[k] + 1, IsExcept))]

\* The statements of a body run in order from statement i, as Python runs
\* them: the state after them and the exception that ended them ("" when
\* none).  An assignment to obj binds obj when the construction returns; a
\* call on obj raises NameError while obj is unbound.
RECURSIVE RunStmts(_, _, _, _, _, _)
RunStmts(stmts, i, st, in_handler, run, lines) ==
    IF i > Len(stmts) THEN [st |-> st, raised |-> ""]
    ELSE LET text == Strip(stmts[i].text)
             index == Cardinality({q \in 1..stmts[i].line : Contains(lines[q], "obj.")})
             construction == IF in_handler THEN run.fallback
                             ELSE IF run.failing = 0 THEN run.error ELSE "returns"
         IN IF StartsWith(text, "obj = ")
            THEN IF construction = "returns"
                 THEN RunStmts(stmts, i + 1, [st EXCEPT !.bound = TRUE], in_handler, run, lines)
                 ELSE [st |-> st, raised |-> construction]
            ELSE IF Contains(text, "obj.")
            THEN IF ~st.bound
                 THEN [st |-> [st EXCEPT !.attempted = @ \cup {index}], raised |-> "NameError"]
                 ELSE IF run.failing = index
                 THEN [st |-> [st EXCEPT !.attempted = @ \cup {index}, !.invoked = @ \cup {index}],
                       raised |-> run.error]
                 ELSE RunStmts(stmts, i + 1,
                               [st EXCEPT !.attempted = @ \cup {index},
                                          !.invoked = @ \cup {index}],
                               in_handler, run, lines)
            ELSE RunStmts(stmts, i + 1, st, in_handler, run, lines)

\* The try statements of the scenario run in order from block b.  An
\* exception of a body goes to the first handler that catches it; an
\* exception raised in a handler is caught by no handler of the same try
\* statement and leaves the test.
RECURSIVE RunScenario(_, _, _, _, _)
RunScenario(blocks, b, st, run, lines) ==
    LET Verdict(v, s) ==
            [verdict |-> v, attempted |-> s.attempted, invoked |-> s.invoked,
             calls |-> Cardinality({q \in DOMAIN lines : Contains(lines[q], "obj.")})]
        Handle(r) ==
            LET hs == {h \in DOMAIN blocks[b].handlers :
                         blocks[b].handlers[h].catches \in {r.raised, "Exception"}}
                Handled(hr) ==
                    IF hr.raised = "" THEN RunScenario(blocks, b + 1, hr.st, run, lines)
                    ELSE Verdict("error", hr.st)
            IN IF r.raised = "" THEN RunScenario(blocks, b + 1, r.st, run, lines)
               ELSE IF hs = {} THEN Verdict("error", r.st)
               ELSE Handled(RunStmts(
                        blocks[b].handlers[CHOOSE h \in hs : \A g \in hs : h <= g].body,
                        1, r.st, TRUE, run, lines))
    IN IF b > Len(blocks) THEN Verdict("passed", st)
       ELSE Handle(RunStmts(blocks[b].body, 1, st, FALSE, run, lines))

\* The argument lists of the calls of _generate_edge_case_inputs: up to
\* four distinct names.
EdgeArgNames == {"x", "y", "z", "path", "count"}
EdgeInputCalls ==
    [op : {"_generate_edge_case_inputs"},
     args : {a \in UNION {[1..n -> EdgeArgNames] : n \in 1..4} :
               \A i, j \in DOMAIN a : a[i] = a[j] => i = j}]

\* The calls of _generate_with_retry: what the service would do at its
\* first, second and third call.
RetryCalls ==
    [op : {"_generate_with_retry"}, outcomes : [1..(max_retries + 2) -> ServiceOutcomes]]

\* The calls of _generate_comprehensive_args: the arguments of one function
\* of the analysis of a source.
SampleCalls ==
    [op : {"_generate_comprehensive_args"},
     source_code : {SrcCart, SrcAny, SrcAnyAdd, SrcStore, SrcBank}, func : {1, 2}]

GenerateCalls ==
    [op : {"generate_tests_with_ai"}, source_code : {SrcAdd, SrcBad},
     service : GeminiBehaviours]

Calls ==
    SmartCalls \cup GenerateCalls \cup EdgeTestRuns \cup InferCalls \cup UsageCalls
    \cup LifecycleRuns \cup EdgeInputCalls \cup RetryCalls \cup SampleCalls

InitCall ==
    /\ pc = "Call"
    /\ call \in Calls
    /\ result = NoResult
    /\ source = SrcEmpty
    /\ hashseed \in HashSeeds
    /\ test_code = ""
    /\ explanation = ""
    /\ coverage_result = NoResult
    /\ coverage_pct = 0
    /\ iterations = 0
    /\ improve_calls = 0
    /\ measured_tests = ""
    /\ measurements = <<>>
    /\ target_functions = <<>>
    /\ response = NoResult
    /\ file_name = "uploaded.py"

\* What every call leaves alone.
Returned ==
    /\ pc' = "Returned"
    /\ UNCHANGED <<call, source, hashseed, test_code, explanation, coverage_result,
                   coverage_pct, iterations, improve_calls, measured_tests,
                   measurements, target_functions, response, file_name>>

SmartTestValuesCall ==
    /\ pc = "Call"
    /\ call.op = "_generate_smart_test_values"
    /\ result' = _generate_smart_test_values(call.param_name, call.param_type,
                                              call.string_literals, call.func_info,
                                              hashseed)
    /\ Returned

GenerateWithAICall ==
    /\ pc = "Call"
    /\ call.op = "generate_tests_with_ai"
    /\ result' = generate_tests_with_ai_use_ai(call.source_code, call.service, hashseed)
    /\ Returned

\* pytest runs the edge-case test the composer emits for one function.
RunEdgeCaseTest ==
    /\ pc = "Call"
    /\ call.op = "test_invalid_input"
    /\ \E analysis \in {analyze_code_structure(call.source_code)} :
          result' = RunEdgeCases(
                        WrappersOf(FunctionTests(analysis.functions[call.func], <<>>,
                                                 analysis, hashseed)),
                        call.outcomes, 1)
    /\ Returned

InferTypesCall ==
    /\ pc = "Call"
    /\ call.op = "_infer_parameter_types"
    /\ result' = _infer_parameter_types(
                      FunctionDef("g", <<call.param>>, 1, 1, <<>>, << Stmt("Pass") >>),
                      <<call.param>>)
    /\ Returned

\* analyze_code_structure on def f(<param>): the parents are linked, then
\* the types of the parameters are inferred.
AnalyzeUsageCall ==
    /\ pc = "Call"
    /\ call.op = "analyze_code_structure"
    /\ result' = analyze_code_structure(
                      Module(<< FunctionDef("f", <<call.param>>, 1, 2, <<>>,
                                            UsageBody(call.param, call.use)) >>)
                  ).functions[1].param_types
    /\ Returned

\* pytest runs the lifecycle scenario the composer emits for the first class
\* of the source.
RunLifecycleTest ==
    /\ pc = "Call"
    /\ call.op = "test_scenario_lifecycle"
    /\ \E analysis \in {analyze_code_structure(call.source_code)} :
         \E lines \in {LifecycleTest(analysis.classes[1].name, analysis.classes[1].init_args,
                                     analysis.classes[1].methods, analysis, hashseed)} :
            result' = RunScenario(TryBlocks(lines), 1,
                                  [bound |-> FALSE, attempted |-> {}, invoked |-> {}],
                                  call, lines)
    /\ Returned

EdgeCaseInputsCall ==
    /\ pc = "Call"
    /\ call.op = "_generate_edge_case_inputs"
    /\ result' = _generate_edge_case_inputs(call.args, [name |-> "f", args |-> call.args])
    /\ Returned

GenerateWithRetryCall ==
    /\ pc = "Call"
    /\ call.op = "_generate_with_retry"
    /\ result' = _generate_with_retry(call.outcomes)
    /\ Returned

SampleArgsCall ==
    /\ pc = "Call"
    /\ call.op = "_generate_comprehensive_args"
    /\ \E analysis \in {analyze_code_structure(call.source_code)} :
          result' = _generate_comprehensive_args(analysis.functions[call.func].args,
                                                 "normal", analysis.functions[call.func],
                                                 analysis, hashseed, 1)
    /\ Returned

NextCall ==
    \/ SmartTestValuesCall \/ GenerateWithAICall \/ RunEdgeCaseTest \/ InferTypesCall
    \/ AnalyzeUsageCall \/ RunLifecycleTest \/ EdgeCaseInputsCall
    \/ GenerateWithRetryCall \/ SampleArgsCall

CallSpec == InitCall /\ [][NextCall]_vars

-----------------------------------------------------------------------------
(* Properties of the /generate-tests request (Spec). *)

\* The text of an integer literal, signed or not.
IsIntegerLiteral(s) ==
    \/ IsDigit(s)
    \/ s # "" /\ SubSeq(s, 1, 1) = "-" /\ IsDigit(SubSeq(s, 2, Len(s)))

\* v, v+1 and v-1 for every integer literal v a comparison of func_info
\* compares the parameter with, in the order of the comparisons.
MinedCandidates(param_name, func_info) ==
    LET OfComparison(comp) ==
            IF Contains(Lower(comp.left), Lower(param_name))
            THEN Flatten([k \in DOMAIN comp.comparators |->
                            IF IsIntegerLiteral(comp.comparators[k])
                            THEN <<ToString(IntOf(comp.comparators[k])),
                                   ToString(IntOf(comp.comparators[k]) + 1),
                                   ToString(IntOf(comp.comparators[k]) - 1)>>
                            ELSE <<>>])
            ELSE <<>>
    IN Flatten([i \in DOMAIN func_info.comparisons |->
                  OfComparison(func_info.comparisons[i])])

\* The index of the first occurrence of x in seq.
FirstIndex(seq, x) == CHOOSE i \in DOMAIN seq : seq[i] = x /\ \A j \in 1..(i - 1) : seq[j] # x

\* C1: whatever the coverage runner answers, improve_tests_with_coverage is
\* invoked at most 3 times in one request.
C1_AtMostThreeRounds == improve_calls <= 3

\* A request that used all three rounds and still ended below the target.
C1_ThreeRoundsBelowTarget ==
    pc = "Done" /\ improve_calls = 3 /\ coverage_pct < 90 /\ Len(measurements) = 4

\* The positions from which the request goes on: each has a step, and the
\* loop bound leaves it no more than nine steps in all.
Running == pc \in {"Start", "Generated", "Measured", "Targeted"}

\* C2: provided every coverage run returns, every request eventually
\* reaches Done, the state in which the response is returned: a request is
\* never at rest anywhere but in Done.
C2_EndsOnlyInDone == Running \/ pc = "Done"

\* The three conditions under which a regeneration round follows a measurement.
RoundDue ==
    /\ coverage_pct < 90
    /\ coverage_result.missing_lines # <<>>
    /\ improve_calls < 3

\* C3: after a coverage measurement a regeneration round is performed if and
\* only if the coverage is below 90, the missing-line list is non-empty and
\* fewer than 3 rounds have been performed; otherwise the request is Done with
\* no further round and the suite unchanged.
C3_RoundIffDue ==
    [][pc = "Measured" =>
         /\ (improve_calls' = improve_calls + 1) <=> RoundDue
         /\ ~RoundDue => /\ pc' = "Done"
                         /\ improve_calls' = improve_calls
                         /\ test_code' = test_code
                         /\ response'.test_code = test_code]_vars

\* An initial coverage of 95% answered with no round at all.
C3_NoRoundAtNinetyFive ==
    /\ pc = "Done"
    /\ measurements = <<95>>
    /\ improve_calls = 0
    /\ response.test_code = measured_tests

\* The text a step of the request added to the suite.
Added(old, new) == SubSeq(new, Len(old) + 1, Len(new))

\* One block of targeted tests: it opens with the header of a round and no
\* second header follows.
OneBlock(block) ==
    /\ StartsWith(block, TargetedHeader)
    /\ ~Contains(SubSeq(block, 2, Len(block)), TargetedHeader)

\* C5: across refinement rounds the suite is only appended to: the text held
\* before a round is an unchanged prefix of the text held after it, and the
\* round adds one block after that prefix; no other step touches the suite.
C5_AppendOnly ==
    [][pc # "Start" =>
         IF pc' = "Targeted"
         THEN /\ StartsWith(test_code', test_code)
              /\ OneBlock(Added(test_code, test_code'))
         ELSE test_code' = test_code]_vars

\* A second round has appended to the suite the first round left.
C5_SecondRoundAppended ==
    /\ pc = "Targeted"
    /\ improve_calls = 2
    /\ StartsWith(test_code, measured_tests)
    /\ Len(test_code) > Len(measured_tests)
    /\ Contains(measured_tests, TargetedHeader)

\* C6: wherever the loop decides to continue or to stop, and at Done, the
\* coverage held is the runner's measurement of the suite held; the response
\* carries that suite and that measurement.
C6_EstimateIsOfReturnedSuite ==
    /\ pc \in {"Measured", "Done"} =>
          /\ measured_tests = test_code
          /\ coverage_pct = coverage_result.coverage_percent
          /\ coverage_pct = measurements[Len(measurements)]
          /\ Len(measurements) = improve_calls + 1
    /\ pc = "Done" =>
          /\ response.test_code = measured_tests
          /\ response.coverage_estimate = coverage_result.coverage_percent

\* A response after two rounds, its estimate the third measurement.
C6_DoneAfterTwoRounds ==
    /\ pc = "Done"
    /\ improve_calls = 2
    /\ Len(measurements) = 3
    /\ response.coverage_estimate = measurements[3]
    /\ response.test_code = measured_tests

\* C7: the suite returned at Done is the best of the request: its measured
\* coverage is not lower than the coverage measured for any earlier suite.
C7_ReturnedSuiteIsBest ==
    pc = "Done" =>
        \A i \in DOMAIN measurements : response.coverage_estimate >= measurements[i]

\* The top-level functions of a source, declared with def or async def.
TopLevelFunctions(source_code) ==
    {source_code.body[i].name : i \in
        {j \in DOMAIN source_code.body :
            source_code.body[j].type \in {"FunctionDef", "AsyncFunctionDef"}}}

\* C8: for a valid source with a top-level function, the composer's output is
\* non-empty and holds a test identifier test_<name> for that function.
C8_TestForEveryTopLevelFunction ==
    (pc = "Generated" /\ source.ok) =>
        \A name \in TopLevelFunctions(source) :
            test_code # "" /\ Contains(test_code, "test_" \o name)

\* C9: synthesis is deterministic: the text generate_tests_with_ai and
\* improve_tests_with_coverage produce for the inputs of this request is the
\* same in every process, whatever order its sets iterate in.
C9_Deterministic ==
    /\ pc = "Generated" =>
          \A seed \in HashSeeds :
              generate_tests_with_ai(source, seed).test_code = test_code
    /\ pc = "Targeted" =>
          \A seed \in HashSeeds :
              improve_tests_with_coverage(source, measured_tests,
                                          coverage_result.missing_lines,
                                          seed).test_code = test_code

\* The string constants used in a list of nodes as a subscript key or as the
\* first argument of a call of .get.
KeysUsedIn(nodes) ==
    {nodes[i].slice.value : i \in
        {j \in DOMAIN nodes : /\ nodes[j].type = "Subscript"
                              /\ nodes[j].slice.type = "Constant"
                              /\ nodes[j].slice.is_str}}
    \cup
    {nodes[i].args[1].value : i \in
        {j \in DOMAIN nodes : /\ nodes[j].type = "Call"
                              /\ nodes[j].func.type = "Attribute"
                              /\ nodes[j].func.attr = "get"
                              /\ nodes[j].args # <<>>
                              /\ nodes[j].args[1].type = "Constant"
                              /\ nodes[j].args[1].is_str}}

\* The function definitions the analyzer analyzes: the top-level ones and
\* the methods of the top-level classes.
AnalyzedNodes(source_code) ==
    {source_code.body[i] : i \in
        {j \in DOMAIN source_code.body : source_code.body[j].type = "FunctionDef"}}
    \cup
    UNION {{source_code.body[i].body[k] : k \in
               {l \in DOMAIN source_code.body[i].body :
                   source_code.body[i].body[l].type = "FunctionDef"}} :
           i \in {j \in DOMAIN source_code.body : source_code.body[j].type = "ClassDef"}}

\* C10: the dict_keys of a function are exactly the string constants used as
\* a subscript key or as the first argument of .get inside its body.
C10_DictKeysAreThoseOfTheBody ==
    (pc = "Generated" /\ source.ok) =>
        \A node \in AnalyzedNodes(source) :
            _analyze_function(node).dict_keys = KeysUsedIn(node.body)

\* The argument tuples with x at position i, the other positions holding a
\* value the composer gives the argument there.
TuplesWith(args, i, x) ==
    LET ValuesAt(j) ==
            IF j = i THEN {x}
            ELSE {_get_safe_value(args[j])}
                 \cup {_get_edge_values(args[j])[k] : k \in DOMAIN _get_edge_values(args[j])}
    IN {values \in [DOMAIN args -> UNION {ValuesAt(j) : j \in DOMAIN args}] :
          \A j \in DOMAIN args : values[j] \in ValuesAt(j)}

\* The emitted tests hold an edge-case call of func with x for its i-th
\* argument.
ProbedWith(func, i, x) ==
    \E values \in TuplesWith(func.args, i, x) :
       Contains(test_code, func.name \o "(*" \o TupleStr(values) \o ")")

\* C12: for every analyzed function and every parameter it compares with an
\* integer literal v (if quantity > 100), the emitted edge-case calls pass
\* v, v+1 and v-1 (100, 101, 99) for that parameter.
C12_EdgeCasesProbeGuards ==
    pc \in {"Generated", "Measured", "Targeted", "Done"} =>
        LET functions == analyze_code_structure(source).functions
        IN \A f \in DOMAIN functions : \A i \in DOMAIN functions[f].args :
              LET mined == MinedCandidates(functions[f].args[i], functions[f])
              IN \A k \in DOMAIN mined : ProbedWith(functions[f], i, mined[k])

\* The non-constructor methods a class of the source defines, def or
\* async def.
MethodsDefined(class_node) ==
    SelectSeq(class_node.body,
              LAMBDA item : /\ item.type \in {"FunctionDef", "AsyncFunctionDef"}
                            /\ item.name # "__init__")

\* A name of the explicit get/read/calculate/report/is_/has_ style.
AccessorStyle(m_name) ==
    \E prefix \in {"get", "read", "calc", "report", "is_", "has_"} :
       StartsWith(Lower(m_name), prefix)

\* C13: every non-constructor method of a class is exactly one of mutator
\* and accessor; it is a mutator only when its name holds one of the
\* add/set/update/create/insert/append keywords or their synonyms, and an
\* accessor whenever its name is of the get/read/calculate/report/is_/has_
\* style or holds no keyword.
C13_MutatorOrAccessorByName ==
    pc = "Generated" =>
        \A c \in DOMAIN source.body :
           source.body[c].type = "ClassDef" =>
              LET defined == MethodsDefined(source.body[c])
                  mutators == Mutators(MethodInfos(source.body[c]))
                  accessors == Accessors(MethodInfos(source.body[c]))
                  IsIn(m_name, list) == \E i \in DOMAIN list : list[i].name = m_name
              IN \A m \in DOMAIN defined :
                    /\ IsIn(defined[m].name, mutators) # IsIn(defined[m].name, accessors)
                    /\ IsIn(defined[m].name, mutators) => IsMutator(defined[m].name)
                    /\ AccessorStyle(defined[m].name) => IsIn(defined[m].name, accessors)
                    /\ ~IsMutator(defined[m].name) => IsIn(defined[m].name, accessors)
                    /\ defined[m].name = "add_item" => IsIn("add_item", mutators)
                    /\ defined[m].name \in {"get_total", "flush"}
                          => IsIn(defined[m].name, accessors)

\* The texts of calls occur in text one after the other, from index from on;
\* calls[k] is the set of the texts allowed for the k-th call.
RECURSIVE InOrder(_, _, _)
InOrder(text, calls, from) ==
    IF calls = <<>> THEN TRUE
    ELSE LET ends == {FindFrom(text, c, from) + Len(c) : c \in
                         {c \in calls[1] : FindFrom(text, c, from) # 0}}
         IN /\ ends # {}
            /\ InOrder(text, Tail(calls), CHOOSE e \in ends : \A f \in ends : e <= f)

\* The lifecycle scenario of a class in the emitted tests: the text from its
\* def line to the empty line that ends it.
ScenarioText(class_name) ==
    LET start == FindFrom(test_code, "def test_" \o class_name \o "_scenario_lifecycle():", 1)
    IN SubSeq(test_code, start, FindFrom(test_code, "\n\n", start))

\* The texts of a call of method m with one edge value for each of its
\* parameters.
EdgeCalls(m) ==
    LET EdgeValues(arg) ==
            {"None"} \cup {_get_edge_values(arg)[k] : k \in DOMAIN _get_edge_values(arg)}
        tuples == {values \in [DOMAIN m.args -> UNION {EdgeValues(m.args[j]) : j \in DOMAIN m.args}] :
                      \A j \in DOMAIN m.args : values[j] \in EdgeValues(m.args[j])}
    IN {"obj." \o m.name \o "(" \o Join(values, ", ") \o ")" : values \in tuples}

\* C14: an emitted lifecycle scenario instantiates the class, then calls
\* every mutator, then every accessor, then every mutator again and every
\* accessor again, the second time with edge arguments.
C14_LifecycleOrder ==
    pc = "Generated" =>
        LET classes == analyze_code_structure(source).classes
            Calls1(methods) == [i \in DOMAIN methods |-> {"obj." \o methods[i].name \o "("}]
            Calls2(methods) == [i \in DOMAIN methods |-> EdgeCalls(methods[i])]
        IN \A c \in DOMAIN classes :
              Mutators(classes[c].methods) # <<>> =>
                 InOrder(ScenarioText(classes[c].name),
                         << {"obj = " \o classes[c].name \o "("} >>
                         \o Calls1(Mutators(classes[c].methods))
                         \o Calls1(Accessors(classes[c].methods))
                         \o Calls2(Mutators(classes[c].methods))
                         \o Calls2(Accessors(classes[c].methods)), 1)

\* C15: for an unparsable source the analyzer returns empty function and
\* class lists with an error note and the composer returns the suite
\* "# No functions found to test": the generation step raises nothing and
\* leaves that suite, whatever happens to the request later.
C15_MalformedSourceGivesNothingToTest ==
    (~source.ok /\ pc # "Start") =>
        /\ StartsWith(test_code, "# No functions found to test")
        /\ analyze_code_structure(source).functions = <<>>
        /\ analyze_code_structure(source).classes = <<>>
        /\ analyze_code_structure(source).error
        /\ pc = "Generated" =>
              /\ test_code = "# No functions found to test"
              /\ explanation = "No testable code"

C15_MalformedSourceGenerated == pc = "Generated" /\ ~source.ok

\* C16: a failure of the coverage runner is never fatal.  The runner
\* answers every call, a failed run with coverage 0, no missing line and an
\* error marker, and the request then returns the suite it holds with the
\* estimate 0.
C16_RunnerFailureNotFatal ==
    [][/\ pc \in {"Generated", "Targeted"} =>
             /\ pc' = "Measured"
             /\ coverage_result'.error =>
                   /\ coverage_result'.coverage_percent = 0
                   /\ coverage_result'.missing_lines = <<>>
       /\ (pc = "Measured" /\ coverage_result.error) =>
             /\ pc' = "Done"
             /\ response'.test_code = test_code
             /\ response'.coverage_estimate = 0]_vars

\* C19: for a source that parses and has a function, every call of the
\* emitted tests has a well-formed argument list: none opens with a comma.
C19_ArgumentListsWellFormed ==
    (/\ pc = "Generated" /\ source.ok
     /\ analyze_code_structure(source).functions # <<>>) =>
        ~Contains(test_code, "(,")

\* The text of the happy-path test emitted for method m_name of class
\* class_name, up to the blank line that ends it; "" when there is none.
HappyPathOf(class_name, m_name) ==
    LET header == "def test_" \o m_name \o "_valid_input():\n"
                  \o "    \"\"\"Test " \o m_name \o " with valid inputs (Happy Path)\"\"\"\n"
                  \o "    from source import " \o class_name \o "\n"
        Block(start) ==
            IF start = 0 THEN ""
            ELSE SubSeq(test_code, start, FindFrom(test_code \o "\n\n", "\n\n", start))
    IN Block(FindFrom(test_code, header, 1))

\* C22: the happy-path test of every method with parameters constructs the
\* class that owns the method with the constructor arguments synthesized
\* for that class, and falls back to the construction without arguments on
\* a TypeError, however many classes the source has.
C22_OwnConstructorArguments ==
    pc = "Generated" =>
        LET analysis == analyze_code_structure(source)
            Own(c) == IF c.init_args = <<>> THEN ""
                      ELSE _generate_comprehensive_args(c.init_args, "normal",
                                                        InitFuncInfo(c.init_args),
                                                        analysis, hashseed, 1)
        IN \A i \in DOMAIN analysis.classes :
             \A k \in DOMAIN analysis.classes[i].methods :
                LET c == analysis.classes[i]
                    m == c.methods[k]
                IN (m.name # "__init__" /\ m.args # <<>>) =>
                     /\ Contains(HappyPathOf(c.name, m.name),
                                 "obj = " \o c.name \o "(" \o Own(c) \o ")\n")
                     /\ c.init_args # <<>> =>
                            Contains(HappyPathOf(c.name, m.name), "except TypeError:")

\* The number of places at which sub occurs in text.
Occurrences(text, sub) ==
    Cardinality({i \in 1..(Len(text) - Len(sub) + 1) :
                   SubSeq(text, i, i + Len(sub) - 1) = sub})

\* C23: the suite generated for a source holds exactly one lifecycle
\* scenario test for every class of the analysis, a class whose methods
\* are all accessors included.
C23_OneLifecyclePerClass ==
    (pc = "Generated" /\ analyze_code_structure(source).functions # <<>>) =>
        \A i \in DOMAIN analyze_code_structure(source).classes :
            Occurrences(test_code,
                        "def test_" \o analyze_code_structure(source).classes[i].name
                            \o "_scenario_lifecycle():") = 1

\* C28: a function is selected as a target of a round exactly when the
\* runner reported unexecuted at least one line of that function in the
\* submitted source, the runner measuring a copy of the source that begins
\* with an encoding line.
C28_SelectedIffOwnLineMissing ==
    pc = "Targeted" =>
        target_functions =
            SelectSeq(analyze_code_structure(source).functions,
                      LAMBDA func :
                          \E line \in func.lineno..func.end_lineno :
                              \E i \in DOMAIN coverage_result.missing_lines :
                                  coverage_result.missing_lines[i] = SandboxLine(line))

\* The names of the test functions defined in a suite, by the place of
\* their definition.
TestNameAt(text, i) ==
    SubSeq(text, i + 5,
           i + 4 + CHOOSE k \in 1..Len(text) :
                      /\ SubSeq(text, i + 5 + k, i + 5 + k) = "("
                      /\ \A q \in 1..(k - 1) : SubSeq(text, i + 5 + q, i + 5 + q) # "(")
TestDefinitions(text) ==
    {i \in 1..(Len(text) - 9) : SubSeq(text, i, i + 9) = "\ndef test_"}

\* C29: in the suite generated and in the suite after every round, no two
\* test functions have the same name.
C29_TestNamesDistinct ==
    pc \in {"Generated", "Targeted"} =>
        \A i, j \in TestDefinitions(test_code) :
            i # j => TestNameAt(test_code, i) # TestNameAt(test_code, j)

-----------------------------------------------------------------------------
(* Properties of improve_tests_with_coverage called on its own             *)
(* (ImproveSpec).                                                          *)

\* Whether a line of the missing-line list lies in [lineno, end_lineno].
HasMissingLine(func, missing_lines) ==
    \E i \in DOMAIN missing_lines :
        func.lineno <= missing_lines[i] /\ missing_lines[i] <= func.end_lineno

\* The names of the functions selected, in order.
NamesOf(funcs) == [i \in DOMAIN funcs |-> funcs[i].name]

\* C4, as stated: for every missing-line list, a function is selected as a
\* refinement target if and only if an element of the list lies in its range.
C4_SelectedIffMissingLineInRange ==
    pc # "ImproveCall" =>
        target_functions =
            SelectSeq(analyze_code_structure(source).functions,
                      LAMBDA func : HasMissingLine(func, coverage_result.missing_lines))

\* C4, amended: for a non-empty missing-line list a function is selected if
\* and only if an element of the list lies in its range, inclusive; for an
\* empty list every analyzed function is selected.  With missing lines
\* [10, 11], of the functions spanning [8, 12] and [14, 20] only the first
\* is selected.
C4_SelectedIffInRangeOrNoLines ==
    pc # "ImproveCall" =>
        /\ coverage_result.missing_lines # <<>> =>
              target_functions =
                  SelectSeq(analyze_code_structure(source).functions,
                            LAMBDA func :
                                HasMissingLine(func, coverage_result.missing_lines))
        /\ coverage_result.missing_lines = <<>> =>
              target_functions = analyze_code_structure(source).functions
        /\ (source = SrcTwo /\ coverage_result.missing_lines = <<10, 11>>) =>
              NamesOf(target_functions) = <<"check">>

\* Missing lines [10, 11] select the function spanning [8, 12] and not the
\* one spanning [14, 20].
C4_OnlyFirstSelected ==
    /\ pc = "ImproveReturned"
    /\ source = SrcTwo
    /\ coverage_result.missing_lines = <<10, 11>>
    /\ NamesOf(target_functions) = <<"check">>
    /\ Contains(test_code, "def test_check_targeted():")
    /\ ~Contains(test_code, "test_total")


\* The kind of block stated for a target: the first that applies of
\* directory-backed, file-backed, dict-targeted and generic.
StatedKind(func) ==
    LET names == {Lower(func.args[i]) : i \in DOMAIN func.args}
        FileLike == \E a \in names : Contains(a, "file")
        DirLike == \E a \in names : AnyIn({"directory", "dir", "folder", "path"}, a)
    IN IF \/ "dir_op" \in func.body_indicators
          \/ DirLike /\ ~FileLike
          \/ Contains(Lower(func.name), "search")
       THEN "directory"
       ELSE IF "file_op" \in func.body_indicators \/ FileLike THEN "file"
       ELSE IF func.dict_keys # {} THEN "dict"
       ELSE "generic"

\* The first line of the targeted block of one kind for a function name.
BlockHeader(func_name, kind) ==
    "\ndef test_" \o func_name
        \o (IF kind = "generic" THEN "" ELSE "_" \o kind) \o "_targeted():"

-----------------------------------------------------------------------------
(* Properties of the functions called on their own (CallSpec). *)

\* C11: the pool _generate_smart_test_values returns holds v, v+1 and v-1
\* for every comparison of the parameter with an integer literal v, holds no
\* value twice, and keeps the mined values in the order of their first
\* occurrence.
C11_PoolHoldsMinedBoundaries ==
    (pc = "Returned" /\ call.op = "_generate_smart_test_values") =>
        LET mined == MinedCandidates(call.param_name, call.func_info)
            InPool(x) == \E i \in DOMAIN result : result[i] = x
        IN /\ \A k \in DOMAIN mined : InPool(mined[k])
           /\ \A i, j \in DOMAIN result : result[i] = result[j] => i = j
           /\ \A i, j \in DOMAIN result :
                  (/\ i < j
                   /\ \E k \in DOMAIN mined : mined[k] = result[i]
                   /\ \E k \in DOMAIN mined : mined[k] = result[j])
                  => FirstIndex(mined, result[i]) < FirstIndex(mined, result[j])

\* C17: with use_ai=True, when the advisory service cannot be imported, is
\* not configured, raises or returns nothing, generate_tests_with_ai returns
\* what the heuristic engine returns for the source.
C17_FallsBackToHeuristic ==
    (/\ pc = "Returned" /\ call.op = "generate_tests_with_ai"
     /\ \/ call.service.kind # "text"
        \/ Strip(call.service.text) = "") =>
        result = generate_tests_with_ai(call.source_code, hashseed)

\* C18: in an emitted edge-case test a call that raises nothing (or one of
\* ValueError, TypeError, ZeroDivisionError) neither fails the test nor
\* keeps the remaining edge tuples from being exercised.
C18_NoExceptionTolerated ==
    (/\ pc = "Returned" /\ call.op = "test_invalid_input"
     /\ \A i \in 1..3 : call.outcomes[i] \in {"returns", "ValueError", "TypeError",
                                                "ZeroDivisionError"}) =>
        LET analysis == analyze_code_structure(call.source_code)
            edge_inputs == _generate_edge_case_inputs(analysis.functions[call.func].args,
                                                      analysis.functions[call.func])
        IN /\ result.verdict = "passed"
           /\ result.exercised = Min(3, Len(edge_inputs))

\* The rows of the stated table, in order: the substrings (or, for the last
\* row, the exact names) and the type they give.
TypeTable ==
    << [words |-> {"price", "cost", "amount", "total", "discount"}, type |-> "float"],
       [words |-> {"count", "quantity", "num", "index"}, type |-> "int"],
       [words |-> {"name", "type", "code", "status"}, type |-> "str"],
       [words |-> {"items", "list", "arr", "numbers"}, type |-> "list"],
       [words |-> {"is_", "has_", "can_"}, type |-> "bool"],
       [words |-> {"data", "config", "options"}, type |-> "dict"] >>

\* Whether row r of the table matches the name.
RowMatches(r, param) ==
    IF r = Len(TypeTable) THEN Lower(param) \in TypeTable[r].words
    ELSE AnyIn(TypeTable[r].words, Lower(param))

\* C20: a parameter whose name matches a row of the table gets the type of
\* the first row it matches; name is str, numbers is list, config and
\* options are dict.
C20_TypeOfFirstMatchingRow ==
    (pc = "Returned" /\ call.op = "_infer_parameter_types") =>
        /\ \A r \in DOMAIN TypeTable :
              (RowMatches(r, call.param) /\ \A q \in 1..(r - 1) : ~RowMatches(q, call.param))
              => result[call.param] = TypeTable[r].type
        /\ call.param = "name" => result[call.param] = "str"
        /\ call.param = "numbers" => result[call.param] = "list"
        /\ call.param \in {"config", "options"} => result[call.param] = "dict"


\* C21: a parameter that no name pattern matches is list when the body
\* subscripts it (p[...]), dict when the body calls .get, .keys or .values
\* on it, and any when the body does neither.
C21_UsageTier ==
    (pc = "Returned" /\ call.op = "analyze_code_structure") =>
        /\ call.use = "subscript" => result[call.param] = "list"
        /\ call.use \in {"get", "keys", "values"} => result[call.param] = "dict"
        /\ call.use = "none" => result[call.param] = "any"

\* C24: whichever single call of a lifecycle scenario fails, the
\* construction included, with whatever exception, and whether or not the
\* construction without arguments fails too, the scenario test does not
\* abort and every call of the scenario is attempted.
C24_EveryCallFaultIsolated ==
    (pc = "Returned" /\ call.op = "test_scenario_lifecycle") =>
        /\ result.verdict = "passed"
        /\ result.attempted = 1..result.calls

\* The all-baseline tuple of an argument list, as values.
Baseline(args) == [j \in DOMAIN args |-> _get_safe_value(args[j])]

\* C25: for a non-empty argument list every returned tuple has one entry
\* per argument and differs from the all-baseline tuple in at most one
\* position, and the all-baseline tuple is among the returned tuples,
\* whatever the number of arguments.
C25_OneAtATimeWithBaseline ==
    (pc = "Returned" /\ call.op = "_generate_edge_case_inputs") =>
        /\ \A k \in DOMAIN result :
              \E i \in DOMAIN call.args :
                 \E v \in {_get_edge_values(call.args[i])[q] :
                             q \in DOMAIN _get_edge_values(call.args[i])}
                          \cup {Baseline(call.args)[i]} :
                    result[k] = TupleStr([Baseline(call.args) EXCEPT ![i] = v])
        /\ \E k \in DOMAIN result : result[k] = TupleStr(Baseline(call.args))

\* An error of the rate-limit class: its message holds 429 or quota.
RateLimitClass(message) ==
    message # "ok" /\ (Contains(message, "429") \/ Contains(Lower(message), "quota"))

\* C27: _generate_with_retry calls the model at most twice; it calls it a
\* second time only after a rate-limit error of the first call; every other
\* error of the first call is raised at once, and a rate-limit error of the
\* second call is raised.
C27_AtMostOneRetry ==
    (pc = "Returned" /\ call.op = "_generate_with_retry") =>
        /\ result.calls <= 2
        /\ result.calls = 2 => RateLimitClass(call.outcomes[1])
        /\ (call.outcomes[1] # "ok" /\ ~RateLimitClass(call.outcomes[1])) =>
              /\ result.calls = 1
              /\ result.raised /\ result.error = call.outcomes[1]
        /\ (RateLimitClass(call.outcomes[1]) /\ RateLimitClass(call.outcomes[2])) =>
              /\ result.calls = 2
              /\ result.raised /\ result.error = call.outcomes[2]

\* The first call failed on the quota, the second on 429: two calls were
\* made and the second error was raised, although a third call would succeed.
C27_SecondRateLimitRaised ==
    /\ pc = "Returned"
    /\ call.op = "_generate_with_retry"
    /\ call.outcomes = <<"Quota exceeded for the project", "429 Too Many Requests", "ok">>
    /\ result.calls = 2
    /\ result.raised
    /\ result.error = "429 Too Many Requests"

\* C30: the synthesis of sample values ends for every analysis: the
\* recursion that constructs an instance of a class named as a parameter's
\* type reaches a literal, whatever the classes and their constructor
\* arguments are called.
C30_SynthesisTerminates ==
    (pc = "Returned" /\ call.op = "_generate_comprehensive_args") =>
        result # RecursionError
====
